---- MODULE Spec2Model ----
(***************************************************************************)
(* Release packager of the Scribe firmware toolchain                       *)
(* (scripts/bin/build_firmware_release.py, scripts/lib/config_cleaner.py). *)
(*                                                                         *)
(* A configuration header is a sequence of lexical tokens:                 *)
(*   [k |-> "hdr", v |-> ...]  the leading comment block                   *)
(*   [k |-> "anc", v |-> f]    the field-name anchor  `f = '                *)
(*   [k |-> "lit", v |-> s]    one quoted string literal "s"               *)
(* Literals that follow each other with no anchor in between are adjacent  *)
(* literals of one value (a C string split over several segments).         *)
(* A file is [ex |-> BOOLEAN, data |-> token sequence].                    *)
(***************************************************************************)
EXTENDS Integers, Sequences, FiniteSets, TLC

(***************************************************************************)
(* Bounds                                                                  *)
(***************************************************************************)
MaxTargets == 2
MaxRows == 2
MaxOffsetLen == 4
MaxDocLen == 3

(***************************************************************************)
(* Lexical tokens                                                          *)
(***************************************************************************)
Hdr(v) == [k |-> "hdr", v |-> v]
Anc(f) == [k |-> "anc", v |-> f]
Lit(s) == [k |-> "lit", v |-> s]

NoFile == [ex |-> FALSE, data |-> <<>>]
File(d) == [ex |-> TRUE, data |-> d]

(***************************************************************************)
(* config_cleaner.py                                                       *)
(***************************************************************************)
\* The character classes the rules test on the first literal of a value,
\* evaluated on the literals of the model's alphabet.
CloudHosts == {"abc123.s1.eu.hivemq.cloud", "YOUR_MQTT_SERVER.hivemq.cloud"}
YourPrefixed == {"YOUR_WIFI_SSID", "YOUR_WIFI_PASSWORD", "YOUR_MQTT_SERVER.hivemq.cloud",
                 "YOUR_MQTT_USERNAME", "YOUR_MQTT_PASSWORD", "YOUR_DEVICE_NAME",
                 "YOUR_OPENAI_API_KEY", "YOUR_BETTERSTACK_TOKEN", "YOUR_BETTERSTACK_ENDPOINT",
                 "YOUR_MQTT_SERVER.example.org"}
SkOrBase64_20 == {"sk-abcdefghijklmnopqrstuvwx", "sk-TEST_abcdefghijklmnopqrstuvwx",
                  "A1b2C3d4E5f6G7h8I9j0K1l2M3n4O5p6Q7r8S9t0"}
Alnum15 == {"A1b2C3d4E5f6G7h8I9j0K1l2M3n4O5p6Q7r8S9t0", "tok1234567890abcdef"}
BetterStackUrls == {"https://s123.betterstackdata.com"}

\* get_secret_patterns(): the ordered rules, each a field anchor, the test
\* on the first literal, and the placeholder.
get_secret_patterns ==
  << [field |-> "defaultWifiSSID", first |-> "any", repl |-> "YOUR_WIFI_SSID"],
     [field |-> "defaultWifiPassword", first |-> "any", repl |-> "YOUR_WIFI_PASSWORD"],
     [field |-> "defaultMqttServer", first |-> "cloud", repl |-> "YOUR_MQTT_SERVER.hivemq.cloud"],
     [field |-> "defaultMqttUsername", first |-> "any", repl |-> "YOUR_MQTT_USERNAME"],
     [field |-> "defaultMqttPassword", first |-> "any", repl |-> "YOUR_MQTT_PASSWORD"],
     [field |-> "defaultDeviceOwner", first |-> "notyour", repl |-> "YOUR_DEVICE_NAME"],
     [field |-> "defaultChatgptApiToken", first |-> "skb64", repl |-> "YOUR_OPENAI_API_KEY"],
     [field |-> "betterStackToken", first |-> "alnum15", repl |-> "YOUR_BETTERSTACK_TOKEN"],
     [field |-> "betterStackEndpoint", first |-> "bsurl", repl |-> "YOUR_BETTERSTACK_ENDPOINT"] >>

FirstMatches(rule, s) ==
  CASE rule.first = "any" -> TRUE
    [] rule.first = "cloud" -> s \in CloudHosts
    [] rule.first = "notyour" -> s \notin YourPrefixed
    [] rule.first = "skb64" -> s \in SkOrBase64_20
    [] rule.first = "alnum15" -> s \in Alnum15
    [] rule.first = "bsurl" -> s \in BetterStackUrls

\* Index of the first token at or after i that is not a literal.
RECURSIVE SkipLits(_, _)
SkipLits(doc, i) ==
  IF i <= Len(doc) /\ doc[i].k = "lit" THEN SkipLits(doc, i + 1) ELSE i

\* The substitution that inserts the placeholder and keeps the value.
RECURSIVE SubRule_keeps_value(_, _, _)
SubRule_keeps_value(rule, doc, i) ==
  IF i > Len(doc) THEN <<>>
  ELSE IF /\ doc[i] = Anc(rule.field)
          /\ i + 1 <= Len(doc)
          /\ doc[i + 1].k = "lit"
          /\ FirstMatches(rule, doc[i + 1].v)
       THEN <<doc[i], Lit(rule.repl)>> \o SubRule_keeps_value(rule, doc, i + 1)
       ELSE <<doc[i]>> \o SubRule_keeps_value(rule, doc, i + 1)

\* The substitution that replaces the first literal of the value only.
RECURSIVE SubRule_first_only(_, _, _)
SubRule_first_only(rule, doc, i) ==
  IF i > Len(doc) THEN <<>>
  ELSE IF /\ doc[i] = Anc(rule.field)
          /\ i + 1 <= Len(doc)
          /\ doc[i + 1].k = "lit"
          /\ FirstMatches(rule, doc[i + 1].v)
       THEN <<doc[i], Lit(rule.repl)>> \o SubRule_first_only(rule, doc, i + 2)
       ELSE <<doc[i]>> \o SubRule_first_only(rule, doc, i + 1)

\* re.sub(pattern, replacement, content) for one rule: every anchor of the
\* rule's field whose first literal passes the test has its whole run of
\* adjacent literals replaced by the placeholder.
RECURSIVE SubRule(_, _, _)
SubRule(rule, doc, i) ==
  IF i > Len(doc) THEN <<>>
  ELSE IF /\ doc[i] = Anc(rule.field)
          /\ i + 1 <= Len(doc)
          /\ doc[i + 1].k = "lit"
          /\ FirstMatches(rule, doc[i + 1].v)
       THEN <<doc[i], Lit(rule.repl)>> \o SubRule(rule, doc, SkipLits(doc, i + 1))
       ELSE <<doc[i]>> \o SubRule(rule, doc, i + 1)

\* The loop over the rules: rule n is applied to the text the rules before
\* it produced (bound as a value, d), then the rules after it.
RECURSIVE ApplyPatterns(_, _)
ApplyPatterns(doc, n) ==
  IF n > Len(get_secret_patterns) THEN doc
  ELSE CHOOSE r \in {ApplyPatterns(d, n + 1) :
                       d \in {SubRule(get_secret_patterns[n], doc, 1)}} : TRUE

\* get_suspicious_patterns(): the literals of the alphabet that one of the
\* shape heuristics matches.
get_suspicious_patterns ==
  {"sk-abcdefghijklmnopqrstuvwx", "A1b2C3d4E5f6G7h8I9j0K1l2M3n4O5p6Q7r8S9t0",
   "https://user:pw@host.example/x", "sk-TEST_abcdefghijklmnopqrstuvwx"}

\* get_placeholder_keywords(): the literals of the alphabet that contain
\* YOUR_, EXAMPLE_, PLACEHOLDER_, TEST_ or DEMO_.
get_placeholder_keywords ==
  YourPrefixed \cup {"sk-TEST_abcdefghijklmnopqrstuvwx"}

\* validate_no_secrets_remain(content): TRUE when it returns, FALSE when it
\* calls sys.exit(1).
validate_no_secrets_remain(doc) ==
  \A i \in 1..Len(doc) :
     (doc[i].k = "lit" /\ doc[i].v \in get_suspicious_patterns)
        => doc[i].v \in get_placeholder_keywords

\* clean_secrets_from_content(content): the replaced text; the caller tests
\* validate_no_secrets_remain on it to know whether the call returns.
clean_secrets_from_content(doc) == ApplyPatterns(doc, 1)

\* What a call of clean_secrets_from_content does: it returns the replaced
\* text, or validate_no_secrets_remain ends the process and nothing is
\* returned.
clean_secrets_result(doc) ==
  CHOOSE r \in {IF validate_no_secrets_remain(c)
                THEN [kind |-> "return", doc |-> c]
                ELSE [kind |-> "exit", doc |-> <<>>] :
                c \in {clean_secrets_from_content(doc)}} : TRUE

\* add_example_file_metadata(content)
add_example_file_metadata(doc) ==
  [i \in 1..Len(doc) |->
      IF doc[i] = Hdr("device_config.h") THEN Hdr("device_config.h.example") ELSE doc[i]]

(***************************************************************************)
(* build_firmware_release.py: is_config_already_clean                      *)
(***************************************************************************)
\* placeholder_patterns: for each regular expression the quoted literals of
\* the alphabet it is found in; the third one is an open prefix.
placeholder_patterns ==
  << {"YOUR_WIFI_SSID"},
     {"YOUR_WIFI_PASSWORD"},
     {"YOUR_MQTT_SERVER.hivemq.cloud", "YOUR_MQTT_SERVER.example.org"},
     {"YOUR_MQTT_USERNAME"},
     {"YOUR_MQTT_PASSWORD"},
     {"YOUR_DEVICE_NAME"},
     {"YOUR_OPENAI_API_KEY"},
     {"YOUR_BETTERSTACK_TOKEN"} >>

CleanThreshold == 3

\* re.search(pattern, content)
search(pattern, doc) ==
  \E i \in 1..Len(doc) : doc[i].k = "lit" /\ doc[i].v \in pattern

\* The loop that counts the patterns found, over the first n patterns.
RECURSIVE placeholder_count(_, _)
placeholder_count(doc, n) ==
  IF n = 0 THEN 0
  ELSE placeholder_count(doc, n - 1)
         + (IF search(placeholder_patterns[n], doc) THEN 1 ELSE 0)

\* The count that adds one for every occurrence of a placeholder.
is_config_already_clean_counts_all(doc) ==
  Cardinality({i \in 1..Len(doc) :
                 \E n \in 1..Len(placeholder_patterns) :
                    doc[i].k = "lit" /\ doc[i].v \in placeholder_patterns[n]})
    >= CleanThreshold

\* is_config_already_clean on the content that was read.
is_config_already_clean(doc) ==
  placeholder_count(doc, Len(placeholder_patterns)) >= CleanThreshold

\* is_config_already_clean(config_path): a file that cannot be read raises
\* inside the try block, and the function returns False.
is_config_already_clean_path(f) ==
  IF ~f.ex THEN FALSE ELSE is_config_already_clean(f.data)

(***************************************************************************)
(* Documents and files the runs start from                                 *)
(***************************************************************************)
SecretDoc ==
  << Hdr("device_config.h"),
     Anc("defaultWifiSSID"), Lit("HomeNet"),
     Anc("defaultWifiPassword"), Lit("SuperSecret123"),
     Anc("defaultMqttServer"), Lit("abc123.s1.eu.hivemq.cloud") >>

EditedDoc ==
  << Hdr("device_config.h"),
     Anc("defaultWifiSSID"), Lit("OtherNet"),
     Anc("defaultWifiPassword"), Lit("SuperSecret123"), Lit("Adam"),
     Anc("defaultDeviceOwner"), Lit("Adam") >>

CleanDoc ==
  << Hdr("device_config.h"),
     Anc("defaultWifiSSID"), Lit("YOUR_WIFI_SSID"),
     Anc("defaultWifiPassword"), Lit("YOUR_WIFI_PASSWORD"),
     Anc("defaultMqttServer"), Lit("YOUR_MQTT_SERVER.hivemq.cloud") >>

LeakyDoc ==
  << Hdr("device_config.h"),
     Anc("defaultWifiSSID"), Lit("HomeNet"),
     Anc("otherSetting"), Lit("A1b2C3d4E5f6G7h8I9j0K1l2M3n4O5p6Q7r8S9t0") >>

PlainDoc ==
  << Anc("defaultMqttServer"), Lit("mqtt.local") >>

CleanLeakyDoc ==
  CleanDoc \o << Anc("otherSetting"), Lit("https://user:pw@host.example/x") >>

LiveDocs == {SecretDoc, EditedDoc, CleanDoc, LeakyDoc, PlainDoc, CleanLeakyDoc}
BackupDocs == {SecretDoc, EditedDoc, CleanDoc}


(***************************************************************************)
(* File operations                                                         *)
(***************************************************************************)
\* The points at which an interrupted write of d can stop: nothing written,
\* half of it, or all of it (the failure came after the data).
Prefixes(d) == {SubSeq(d, 1, n) : n \in {0, Len(d) \div 2, Len(d)}}

\* What a write of d to a file can leave behind when it raises: the file as
\* it was (the open failed) or truncated and written up to some point.
FailedWrite(d, dst) == {dst} \cup {File(q) : q \in Prefixes(d)}

\* shutil.copy2(src, dst): the outcomes [ok, dst].
copy2(src, dst) ==
  {[ok |-> TRUE, dst |-> File(src.data)]}
    \cup {[ok |-> FALSE, dst |-> f] : f \in FailedWrite(src.data, dst)}

\* open(path, "w").write(d): the outcomes [ok, dst].
write_text(d, dst) ==
  {[ok |-> TRUE, dst |-> File(d)]}
    \cup {[ok |-> FALSE, dst |-> f] : f \in FailedWrite(d, dst)}

(***************************************************************************)
(* Partition tables.  Text that the code takes apart is a sequence of      *)
(* one-character strings.                                                  *)
(***************************************************************************)
LITTLEFS == <<"l", "i", "t", "t", "l", "e", "f", "s">>

HexDigits == <<"0", "1", "2", "3", "4", "5", "6", "7", "8", "9",
               "a", "b", "c", "d", "e", "f">>

\* str.lower(), character by character.
lower_char(c) ==
  CASE c = "A" -> "a" [] c = "B" -> "b" [] c = "C" -> "c" [] c = "D" -> "d"
    [] c = "E" -> "e" [] c = "F" -> "f" [] c = "L" -> "l" [] c = "S" -> "s"
    [] c = "X" -> "x" [] OTHER -> c

lower(s) == [k \in 1..Len(s) |-> lower_char(s[k])]

\* str.strip()
RECURSIVE lstrip(_)
lstrip(s) == IF s # <<>> /\ s[1] = " " THEN lstrip(Tail(s)) ELSE s

RECURSIVE rstrip(_)
rstrip(s) ==
  IF s # <<>> /\ s[Len(s)] = " " THEN rstrip(SubSeq(s, 1, Len(s) - 1)) ELSE s

strip(s) == rstrip(lstrip(s))

\* str.startswith(p)
startswith(s, p) == Len(s) >= Len(p) /\ SubSeq(s, 1, Len(p)) = p

IsDigit(c, base) == \E v \in 0..(base - 1) : HexDigits[v + 1] = lower_char(c)
DigitValue(c) == CHOOSE v \in 0..15 : HexDigits[v + 1] = lower_char(c)

RECURSIVE ValueOf(_, _)
ValueOf(ds, base) ==
  IF ds = <<>> THEN 0
  ELSE ValueOf(SubSeq(ds, 1, Len(ds) - 1), base) * base + DigitValue(ds[Len(ds)])

ValueError == -1

\* int(s, 0) for an unsigned literal: a 0x or 0X prefix selects base 16, a
\* decimal literal has no leading zero unless it is all zeros.
int0(s) ==
  IF /\ Len(s) >= 3
     /\ s[1] = "0"
     /\ lower_char(s[2]) = "x"
     /\ \A k \in 3..Len(s) : IsDigit(s[k], 16)
  THEN ValueOf(SubSeq(s, 3, Len(s)), 16)
  ELSE IF /\ s # <<>>
          /\ \A k \in 1..Len(s) : IsDigit(s[k], 10)
          /\ (s[1] # "0" \/ \A k \in 1..Len(s) : s[k] = "0")
  THEN ValueOf(s, 10)
  ELSE ValueError

RECURSIVE HexOf(_)
HexOf(n) ==
  IF n < 16 THEN <<HexDigits[n + 1]>>
  ELSE Append(HexOf(n \div 16), HexDigits[(n % 16) + 1])

\* hex(n) for n >= 0
hex(n) == <<"0", "x">> \o HexOf(n)

\* What _get_fs_offset_from_partitions does: it returns a string, or ends in
\* fatal_error, which raises SystemExit.
FatalExit == [kind |-> "exit", value |-> <<>>]
Returned(o) == [kind |-> "offset", value |-> o]

\* The offset field handed on as it is written.
normalize_offset_verbatim(offset) == Returned(offset)

\* "Normalize to 0x... string"
normalize_offset(offset) ==
  IF startswith(offset, <<"0", "x">>) THEN Returned(offset)
  ELSE IF int0(offset) = ValueError THEN FatalExit
  ELSE Returned(hex(int0(offset)))

\* A row of the CSV file: the number of its fields (0 for a blank line), its
\* first field and its fourth field.
Row(n, name, offset) == [n |-> n, name |-> name, offset |-> offset]
BlankRow == Row(0, <<>>, <<>>)

\* The scan comparing the name field as it is written.
RECURSIVE scan_rows_exact(_)
scan_rows_exact(rows) ==
  IF rows = <<>> THEN FatalExit
  ELSE LET row == Head(rows) IN
       IF row.n = 0 \/ startswith(strip(row.name), <<"#">>)
       THEN scan_rows_exact(Tail(rows))
       ELSE IF row.n >= 5 /\ row.name = LITTLEFS
       THEN normalize_offset(strip(row.offset))
       ELSE scan_rows_exact(Tail(rows))

\* The scan with a default offset in place of the fatal error.
RECURSIVE scan_rows_default(_)
scan_rows_default(rows) ==
  IF rows = <<>> THEN Returned(<<"0", "x", "2", "9", "0", "0", "0", "0">>)
  ELSE LET row == Head(rows) IN
       IF row.n = 0 \/ startswith(strip(row.name), <<"#">>)
       THEN scan_rows_default(Tail(rows))
       ELSE IF row.n >= 5 /\ lower(strip(row.name)) = LITTLEFS
       THEN normalize_offset(strip(row.offset))
       ELSE scan_rows_default(Tail(rows))

\* The for loop over the rows and the fatal error that follows it.
RECURSIVE scan_rows(_)
scan_rows(rows) ==
  IF rows = <<>> THEN FatalExit
  ELSE LET row == Head(rows) IN
       IF row.n = 0 \/ startswith(strip(row.name), <<"#">>)
       THEN scan_rows(Tail(rows))
       ELSE IF row.n >= 5 /\ lower(strip(row.name)) = LITTLEFS
       THEN normalize_offset(strip(row.offset))
       ELSE scan_rows(Tail(rows))

\* A partitions file: missing, or its rows.
NoCsv == [ex |-> FALSE, rows |-> <<>>]
Csv(rows) == [ex |-> TRUE, rows |-> rows]

\* A file that cannot be opened raises inside the try block and ends in
\* fatal_error as well.
_get_fs_offset_from_partitions(csv) ==
  IF ~csv.ex THEN FatalExit ELSE scan_rows(csv.rows)

(***************************************************************************)
(* State of one release run                                                *)
(***************************************************************************)
VARIABLES
  pc,            \* position of main()
  live,          \* src/config/device_config.h
  backup,        \* src/config/device_config.h.adam
  stamped,       \* src/config/device_config.h.adam.<timestamp>
  example,       \* src/config/device_config.h.example
  live0,         \* the live config when the run started
  backup0,       \* the backup file when the run started
  success,       \* main's success flag
  exc,           \* exception propagating out of the try block
  exitCode,      \* process exit status, -1 while running
  bkResult,      \* what backup_config did: none, true, false, fatal
  scResult,      \* what generate_clean_config did: none, true, false, exit
  rsResult,      \* what restore_config returned: none, true, false
  rsPre,         \* the files when restore_config was entered
  restoreCalls,  \* number of calls of restore_config
  cmds,          \* external commands invoked so far, in order
  idx,           \* index of the current target
  tgt,           \* per target: the result of each of its steps
  art,           \* images present in .pio/build/<current target>
  ptable,        \* the partitions file create_merged_binary has just read
  mergeCmd,      \* the arguments of the merge command it has just run
  arg,           \* library call: the argument
  ret,           \* library call: the results of the successive applications
  workflow,      \* custom target running: build_upload_monitor or deploy_all
  wpc,           \* position of the custom target's function
  pioenv,        \* what env.get("PIOENV") and env.subst("$PIOENV") give
  env_name,      \* the environment name the commands are run for
  invoked,       \* commands the custom target has invoked, with exit codes
  returned,      \* the value the custom target returned, once it has
  script,        \* which optimize_filesystem.py runs: bin or legacy
  opc,           \* position of build_optimized_filesystem
  data,          \* the data directory: per path the file and its .gz sibling
  static,        \* the source directory of static assets: per path the file
  template,      \* scripts/templates/data_warning.md
  walked,        \* the data directory as the walk found it
  todo,          \* files the walk has still to visit
  environ,       \* the MQTT_* environment variables of the simulator
  args,          \* the command-line flags of the simulator
  spc,           \* position of the simulator's main()
  simulator,     \* the ScribePrinterSimulator main() has created
  mode,          \* how the simulator runs: interactive or scenario
  clients,       \* simulator.clients: per printer name a session, 0 for none
  sessions,      \* every MQTT client created so far, in order
  mainT,         \* locals of the main thread
  listenerT      \* the keyboard-listener thread

files == <<live, backup, stamped, example>>
vars == <<pc, live, backup, stamped, example, live0, backup0, success, exc,
          exitCode, bkResult, scResult, rsResult, rsPre, restoreCalls, cmds,
          idx, tgt, art, ptable, mergeCmd, arg, ret,
          workflow, wpc, pioenv, env_name, invoked, returned,
          script, opc, data, static, template, walked, todo,
          environ, args, spc, simulator, mode, clients, sessions, mainT,
          listenerT>>

\* The state of a function of the scripts called on its own.
lib == <<arg, ret>>

\* The state of the PlatformIO custom targets, and no custom target running.
workflowv == <<workflow, wpc, pioenv, env_name, invoked, returned>>
WorkflowAtRest ==
  /\ workflow = "none"
  /\ wpc = "idle"
  /\ pioenv = [get |-> "", subst |-> ""]
  /\ env_name = ""
  /\ invoked = <<>>
  /\ returned = <<>>

\* The state of the filesystem optimizer, and the optimizer not running.
optimizerv == <<script, opc, data, static, template, walked, todo>>
OptimizerAtRest ==
  /\ script = "none"
  /\ opc = "idle"
  /\ data = <<>>
  /\ static = <<>>
  /\ template = NoFile
  /\ walked = <<>>
  /\ todo = {}

\* The state of the printer simulator, and the simulator not running.
simulatorv == <<environ, args, spc, simulator, mode, clients, sessions, mainT,
                listenerT>>
NoSessions ==
  /\ mode = "none"
  /\ clients = <<>>
  /\ sessions = <<>>
  /\ mainT = <<>>
  /\ listenerT = <<>>
SimulatorAtRest ==
  /\ environ = <<>>
  /\ args = <<>>
  /\ spc = "idle"
  /\ simulator = <<>>
  /\ NoSessions

\* The state of the tools beside the release script.
tools == <<workflowv, optimizerv, simulatorv>>
ToolsAtRest == WorkflowAtRest /\ OptimizerAtRest /\ SimulatorAtRest

\* get_production_environments(): the environments named on the
\* default_envs line of platformio.ini, here those of the fallback list with
\* both chip families among the first two.
fallback == <<"esp32c3-prod", "esp32c3-prod-no-leds", "lolin32lite-no-leds">>
default_envs == <<fallback[1], fallback[3], fallback[2]>>
targets == SubSeq(default_envs, 1, MaxTargets)

\* The addresses of the merge command; no command has been run.
NoCmd == [chip |-> "none", bootloader_addr |-> "none", partitions_addr |-> "none",
          firmware_addr |-> "none", fs_offset |-> <<>>]

NoSteps == [build |-> "none", copy |-> "none", fs |-> "none", merge |-> "none"]

Init ==
  /\ pc = "start"
  /\ live0 \in {NoFile} \cup {File(d) : d \in LiveDocs}
  /\ backup0 \in {NoFile} \cup {File(d) : d \in BackupDocs}
  /\ live = live0
  /\ backup = backup0
  /\ stamped = NoFile
  /\ example = NoFile
  /\ success = TRUE
  /\ exc = "none"
  /\ exitCode = -1
  /\ bkResult = "none"
  /\ scResult = "none"
  /\ rsResult = "none"
  /\ rsPre = <<NoFile, NoFile, NoFile, NoFile>>
  /\ restoreCalls = 0
  /\ cmds = <<>>
  /\ idx = 0
  /\ tgt = [i \in 1..MaxTargets |-> NoSteps]
  /\ art = {}
  /\ ptable = <<>>
  /\ mergeCmd = NoCmd
  /\ arg = <<>>
  /\ ret = <<>>
  /\ ToolsAtRest

(***************************************************************************)
(* backup_config                                                           *)
(***************************************************************************)
\* backup_config without the data-loss refusal: a clean-looking live config
\* with no backup is backed up like any other.
backup_config_norefuse(l, b, s) ==
  IF ~l.ex THEN {[result |-> "fatal", backup |-> b, stamped |-> s]}
  ELSE IF b.ex /\ (is_config_already_clean(l.data) \/ ~is_config_already_clean(b.data))
  THEN {[result |-> "true", backup |-> b, stamped |-> s]}
  ELSE LET sides == IF b.ex THEN {o.dst : o \in copy2(l, s)} ELSE {s}
       IN {[result |-> IF o.ok THEN "true" ELSE "false", backup |-> o.dst, stamped |-> s2] :
              o \in copy2(l, b), s2 \in sides}

\* backup_config that keeps a clean-looking backup after the side-copy
\* instead of replacing it.
backup_config_keeps(l, b, s) ==
  IF ~l.ex THEN {[result |-> "fatal", backup |-> b, stamped |-> s]}
  ELSE IF is_config_already_clean(l.data)
  THEN IF b.ex
       THEN {[result |-> "true", backup |-> b, stamped |-> s]}
       ELSE {[result |-> "fatal", backup |-> b, stamped |-> s]}
  ELSE IF b.ex /\ ~is_config_already_clean(b.data)
  THEN {[result |-> "true", backup |-> b, stamped |-> s]}
  ELSE IF b.ex
  THEN {[result |-> "true", backup |-> b, stamped |-> o.dst] : o \in copy2(l, s)}
  ELSE {[result |-> IF o.ok THEN "true" ELSE "false", backup |-> o.dst, stamped |-> s] :
           o \in copy2(l, b)}

\* backup_config without the guard that protects a secret-bearing backup:
\* an existing backup is replaced by the live config.
backup_config_overwrites(l, b, s) ==
  IF ~l.ex THEN {[result |-> "fatal", backup |-> b, stamped |-> s]}
  ELSE IF is_config_already_clean(l.data) /\ ~b.ex
  THEN {[result |-> "fatal", backup |-> b, stamped |-> s]}
  ELSE {[result |-> IF o.ok THEN "true" ELSE "false", backup |-> o.dst, stamped |-> s] :
           o \in copy2(l, b)}

\* The outcomes [result, backup, stamped] of backup_config() on the files
\* (l, b, s).
backup_config(l, b, s) ==
  IF ~l.ex THEN {[result |-> "fatal", backup |-> b, stamped |-> s]}
  ELSE IF is_config_already_clean(l.data)
  THEN IF b.ex
       THEN {[result |-> "true", backup |-> b, stamped |-> s]}
       ELSE {[result |-> "fatal", backup |-> b, stamped |-> s]}
  ELSE IF b.ex /\ ~is_config_already_clean(b.data)
  THEN {[result |-> "true", backup |-> b, stamped |-> s]}
  ELSE LET sides == IF b.ex THEN {o.dst : o \in copy2(l, s)} ELSE {s}
       IN {[result |-> IF o.ok THEN "true" ELSE "false", backup |-> o.dst, stamped |-> s2] :
              o \in copy2(l, b), s2 \in sides}

\* restore_config that reports success without looking at the copy.
restore_config_blind(l, b) ==
  IF ~b.ex THEN {[result |-> "false", live |-> l]}
  ELSE {[result |-> "true", live |-> o.dst] : o \in copy2(b, l)}

\* restore_config(): the outcomes [result, live] on the files (l, b).
restore_config(l, b) ==
  IF ~b.ex THEN {[result |-> "false", live |-> l]}
  ELSE {[result |-> IF o.ok THEN "true" ELSE "false", live |-> o.dst] : o \in copy2(b, l)}

\* recover_config that copies a backup that looks clean as well.
recover_config_any_backup(l, b) ==
  IF ~b.ex THEN {[result |-> "false", live |-> l]}
  ELSE {[result |-> IF o.ok THEN "true" ELSE "false", live |-> o.dst] : o \in copy2(b, l)}

\* recover_config(): the outcomes [result, live] on the files (l, b).
recover_config(l, b) ==
  IF ~b.ex THEN {[result |-> "false", live |-> l]}
  ELSE IF is_config_already_clean_path(b) THEN {[result |-> "false", live |-> l]}
  ELSE {[result |-> IF o.ok THEN "true" ELSE "false", live |-> o.dst] : o \in copy2(b, l)}

\* generate_clean_config that goes on after a failed residual-secret scan.
generate_clean_config_unchecked(l, e) ==
  IF ~l.ex THEN {[result |-> "exit", live |-> l, example |-> e]}
  ELSE LET cleaned == clean_secrets_from_content(l.data)
           ex_content == add_example_file_metadata(cleaned)
       IN {[result |-> "false", live |-> l, example |-> e]}
          \cup {[result |-> "false", live |-> l, example |-> we.dst] :
                   we \in {o \in write_text(ex_content, e) : ~o.ok}}
          \cup {[result |-> IF wl.ok THEN "true" ELSE "false",
                 live |-> wl.dst, example |-> File(ex_content)] :
                  wl \in write_text(cleaned, l)}

\* generate_clean_config that writes the example file only and leaves the
\* live config as it is.
generate_clean_config_example_only(l, e) ==
  IF ~l.ex THEN {[result |-> "exit", live |-> l, example |-> e]}
  ELSE LET cleaned == clean_secrets_from_content(l.data)
           ex_content == add_example_file_metadata(cleaned)
       IN {[result |-> "false", live |-> l, example |-> e]}
          \cup (IF ~validate_no_secrets_remain(cleaned)
                THEN {[result |-> "exit", live |-> l, example |-> e]}
                ELSE {[result |-> IF we.ok THEN "true" ELSE "false",
                       live |-> l, example |-> we.dst] :
                         we \in write_text(ex_content, e)})

\* generate_clean_config(): the outcomes [result, live, example] on the
\* files (l, e).
generate_clean_config(l, e) ==
  IF ~l.ex THEN {[result |-> "exit", live |-> l, example |-> e]}
  ELSE LET cleaned == clean_secrets_from_content(l.data)
           ex_content == add_example_file_metadata(cleaned)
       IN \* the read of the live config raises
          {[result |-> "false", live |-> l, example |-> e]}
          \cup (IF ~validate_no_secrets_remain(cleaned)
                THEN {[result |-> "exit", live |-> l, example |-> e]}
                ELSE {[result |-> "false", live |-> l, example |-> we.dst] :
                         we \in {o \in write_text(ex_content, e) : ~o.ok}}
                     \cup {[result |-> IF wl.ok THEN "true" ELSE "false",
                            live |-> wl.dst, example |-> File(ex_content)] :
                             wl \in write_text(cleaned, l)})


(***************************************************************************)
(* main                                                                    *)
(***************************************************************************)
\* main without the finally clause: the exception ends the run at once.
Propagate_no_finally(e) ==
  /\ pc' = "exit"
  /\ exc' = e

\* An exception (SystemExit included) leaves the try block of main: the
\* finally clause runs restore_config and the exception goes on from there.
Propagate(e) ==
  /\ pc' = "restore"
  /\ exc' = e

\* The for loop of main moves to the next target, or ends.
NextTarget ==
  /\ IF idx < Len(targets)
     THEN pc' = "build" /\ idx' = idx + 1
     ELSE pc' = "relinfo" /\ idx' = idx
  /\ art' = {}

\* main, before the try block: platformio.ini must exist and be readable.
Start ==
  /\ pc = "start"
  /\ \/ /\ pc' = "backup"
        /\ UNCHANGED exitCode
     \/ /\ pc' = "done"
        /\ exitCode' = 1
  /\ UNCHANGED <<live, backup, stamped, example, live0, backup0, success, exc,
                 bkResult, scResult, rsResult, rsPre, restoreCalls, cmds, idx, tgt, art>>
  /\ UNCHANGED <<ptable, mergeCmd, lib, tools>>

\* main with --recover: recover_config() and return, whatever it reports.
Recover ==
  /\ pc = "start"
  /\ \E o \in recover_config(live, backup) :
        /\ live' = o.live
        /\ pc' = IF o.result = "true" THEN "recovered" ELSE "recover_failed"
  /\ exitCode' = 0
  /\ UNCHANGED <<backup, stamped, example, live0, backup0, success, exc,
                 bkResult, scResult, rsResult, rsPre, restoreCalls, cmds, idx, tgt, art>>
  /\ UNCHANGED <<ptable, mergeCmd, lib, tools>>

\* main going straight to the frontend build when the live config already
\* looks clean.
Backup_skips_scrub ==
  /\ pc = "backup"
  /\ \E o \in backup_config(live, backup, stamped) :
        /\ backup' = o.backup
        /\ stamped' = o.stamped
        /\ bkResult' = o.result
        /\ IF o.result = "true"
           THEN /\ pc' = IF is_config_already_clean_path(live)
                         THEN "frontend" ELSE "scrub"
                /\ exc' = exc
           ELSE Propagate("SystemExit")
  /\ UNCHANGED <<live, example, live0, backup0, success, exitCode, scResult,
                 rsResult, rsPre, restoreCalls, cmds, idx, tgt, art>>
  /\ UNCHANGED <<ptable, mergeCmd, lib, tools>>

\* Step 1: backup_config(); a False result is turned into a fatal error.
Backup ==
  /\ pc = "backup"
  /\ \E o \in backup_config(live, backup, stamped) :
        /\ backup' = o.backup
        /\ stamped' = o.stamped
        /\ bkResult' = o.result
        /\ IF o.result = "true"
           THEN pc' = "scrub" /\ exc' = exc
           ELSE Propagate("SystemExit")
  /\ UNCHANGED <<live, example, live0, backup0, success, exitCode, scResult,
                 rsResult, rsPre, restoreCalls, cmds, idx, tgt, art>>
  /\ UNCHANGED <<ptable, mergeCmd, lib, tools>>

\* Step 2: generate_clean_config().
Scrub ==
  /\ pc = "scrub"
  /\ \E o \in generate_clean_config(live, example) :
        /\ live' = o.live
        /\ example' = o.example
        /\ scResult' = o.result
        /\ IF o.result = "true"
           THEN pc' = "frontend" /\ UNCHANGED <<exc, success>>
           ELSE IF o.result = "false"
           THEN pc' = "relinfo" /\ success' = FALSE /\ exc' = exc
           ELSE Propagate("SystemExit") /\ UNCHANGED success
  /\ UNCHANGED <<backup, stamped, live0, backup0, exitCode, bkResult, rsResult,
                 rsPre, restoreCalls, cmds, idx, tgt, art>>
  /\ UNCHANGED <<ptable, mergeCmd, lib, tools>>

\* main going on to the targets after a failed frontend build.
Frontend_continues ==
  /\ pc = "frontend"
  /\ cmds' = Append(cmds, <<"npm run build", 0>>)
  /\ pc' = "build"
  /\ idx' = 1
  /\ success' \in {TRUE, FALSE}
  /\ UNCHANGED <<live, backup, stamped, example, live0, backup0, exc, exitCode,
                 bkResult, scResult, rsResult, rsPre, restoreCalls, tgt, art>>
  /\ UNCHANGED <<ptable, mergeCmd, lib, tools>>

\* Step 3: npm run build.
Frontend ==
  /\ pc = "frontend"
  /\ cmds' = Append(cmds, <<"npm run build", 0>>)
  /\ \/ /\ pc' = "build"
        /\ idx' = 1
        /\ UNCHANGED success
     \/ /\ pc' = "relinfo"
        /\ success' = FALSE
        /\ UNCHANGED idx
  /\ UNCHANGED <<live, backup, stamped, example, live0, backup0, exc, exitCode,
                 bkResult, scResult, rsResult, rsPre, restoreCalls, tgt, art>>
  /\ UNCHANGED <<ptable, mergeCmd, lib, tools>>

\* The images a successful `pio run' leaves in .pio/build/<target>.
BuildOutputs == {{"fw", "bl", "pt"}, {"bl", "pt"}, {"fw", "pt"}, {"fw", "bl"}}

\* Step 4, build_firmware(target).
BuildFirmware ==
  /\ pc = "build"
  /\ cmds' = Append(cmds, <<"pio run", idx>>)
  /\ \/ /\ art' \in BuildOutputs
        /\ tgt' = [tgt EXCEPT ![idx].build = "ok"]
        /\ pc' = "copy"
        /\ UNCHANGED <<success, idx>>
     \/ /\ tgt' = [tgt EXCEPT ![idx].build = "fail"]
        /\ success' = FALSE
        /\ NextTarget
  /\ UNCHANGED <<live, backup, stamped, example, live0, backup0, exc, exitCode,
                 bkResult, scResult, rsResult, rsPre, restoreCalls>>
  /\ ptable' = <<>>
  /\ mergeCmd' = NoCmd
  /\ UNCHANGED <<lib, tools>>

\* copy_firmware(environment): the possible results given the images a.
copy_firmware(a) ==
  IF "fw" \notin a THEN {"fail"}
  ELSE {"fail"} \cup (IF "bl" \in a /\ "pt" \in a THEN {"ok"} ELSE {})

CopyFirmware ==
  /\ pc = "copy"
  /\ \E r \in copy_firmware(art) : tgt' = [tgt EXCEPT ![idx].copy = r]
  /\ pc' = "fs"
  /\ UNCHANGED <<live, backup, stamped, example, live0, backup0, success, exc,
                 exitCode, bkResult, scResult, rsResult, rsPre, restoreCalls,
                 cmds, idx, art>>
  /\ UNCHANGED <<ptable, mergeCmd, lib, tools>>

\* build_filesystem(environment): the build fails (caught), or succeeds
\* with or without an image; the copy of the image can raise, uncaught.
BuildFilesystem ==
  /\ pc = "fs"
  /\ cmds' = Append(cmds, <<"pio run --target buildfs", idx>>)
  /\ \/ /\ tgt' = [tgt EXCEPT ![idx].fs = "fail"]
        /\ pc' = "merge"
        /\ UNCHANGED <<art, exc>>
     \/ /\ tgt' = [tgt EXCEPT ![idx].fs = "ok"]
        /\ art' \in {art, art \cup {"fs"}}
        /\ pc' = "merge"
        /\ UNCHANGED exc
     \/ /\ tgt' = [tgt EXCEPT ![idx].fs = "raise"]
        /\ art' = art \cup {"fs"}
        /\ Propagate("OSError")
  /\ UNCHANGED <<live, backup, stamped, example, live0, backup0, success,
                 exitCode, bkResult, scResult, rsResult, rsPre, restoreCalls, idx>>
  /\ UNCHANGED <<ptable, mergeCmd, lib, tools>>

required_files == {"bl", "pt", "fw", "fs"}

\* The partitions file that _get_partitions_file_for_env finds for a target:
\* the one platformio.ini names, or partitions_no_ota.csv, which need not
\* exist.
OFFSET_HEX == <<"0", "x", "2", "1", "0", "0", "0", "0">>
OFFSET_DEC == <<"2", "1", "6", "2", "6", "8", "8">>
NVS == <<"n", "v", "s">>
COMMENT == <<"#", " ", "N", "a", "m", "e">>

RunTables ==
  { NoCsv,
    Csv(<<Row(5, NVS, <<"0", "x", "9", "0", "0", "0">>)>>),
    Csv(<<Row(6, COMMENT, <<" ", "O", "f", "f", "s", "e", "t">>),
          Row(6, NVS, <<"0", "x", "9", "0", "0", "0">>),
          Row(6, LITTLEFS, OFFSET_HEX)>>),
    Csv(<<Row(5, NVS, <<"3", "6", "8", "6", "4">>),
          Row(5, LITTLEFS, OFFSET_DEC)>>) }

\* environment.startswith("esp32c3")
esp32c3 == {"esp32c3-prod", "esp32c3-prod-no-leds"}
chip_type(environment) == IF environment \in esp32c3 THEN "ESP32C3" ELSE "ESP32"
\* The bootloader address of the ESP32-C3 used for every chip.
bootloader_addr_c3_only(environment) == "0x0000"

bootloader_addr(environment) ==
  IF environment \in esp32c3 THEN "0x0000" ELSE "0x1000"

merge_cmd(environment, fs_offset) ==
  [chip |-> chip_type(environment),
   bootloader_addr |-> bootloader_addr(environment),
   partitions_addr |-> "0x8000",
   firmware_addr |-> "0x10000",
   fs_offset |-> fs_offset]

\* create_merged_binary(environment)
CreateMergedBinary ==
  /\ pc = "merge"
  /\ IF ~(required_files \subseteq art)
     THEN /\ tgt' = [tgt EXCEPT ![idx].merge = "fail"]
          /\ NextTarget
          /\ UNCHANGED <<cmds, exc, ptable, mergeCmd>>
     ELSE \E csv \in RunTables :
          \E r \in {_get_fs_offset_from_partitions(csv)} :
             /\ ptable' = <<csv>>
             /\ IF r.kind = "exit"
                THEN /\ tgt' = [tgt EXCEPT ![idx].merge = "exit"]
                     /\ Propagate("SystemExit")
                     /\ UNCHANGED <<cmds, idx, art, mergeCmd>>
                ELSE /\ cmds' = Append(cmds, <<"esptool merge-bin", idx>>)
                     /\ mergeCmd' = merge_cmd(targets[idx], r.value)
                     /\ \E res \in {"ok", "fail"} :
                           tgt' = [tgt EXCEPT ![idx].merge = res]
                     /\ NextTarget
                     /\ UNCHANGED exc
  /\ UNCHANGED <<live, backup, stamped, example, live0, backup0, success,
                 exitCode, bkResult, scResult, rsResult, rsPre, restoreCalls>>
  /\ UNCHANGED <<lib, tools>>

\* Step 5: create_release_info(); formatting the template can raise.
CreateReleaseInfo ==
  /\ pc = "relinfo"
  /\ \/ pc' = "restore" /\ exc' = exc
     \/ Propagate("KeyError")
  /\ UNCHANGED <<live, backup, stamped, example, live0, backup0, success,
                 exitCode, bkResult, scResult, rsResult, rsPre, restoreCalls,
                 cmds, idx, tgt, art>>
  /\ ptable' = <<>>
  /\ mergeCmd' = NoCmd
  /\ UNCHANGED <<lib, tools>>

\* Step 6, the finally clause: restore_config().
Restore ==
  /\ pc = "restore"
  /\ rsPre' = files
  /\ \E o \in restore_config(live, backup) :
        /\ live' = o.live
        /\ rsResult' = o.result
  /\ restoreCalls' = restoreCalls + 1
  /\ pc' = "exit"
  /\ UNCHANGED <<backup, stamped, example, live0, backup0, success, exc,
                 exitCode, bkResult, scResult, cmds, idx, tgt, art>>
  /\ UNCHANGED <<ptable, mergeCmd, lib, tools>>

\* After the try statement: a pending exception ends the process with
\* status 1, otherwise the status follows the success flag.
exit_status(e, ok) == IF e # "none" THEN 1 ELSE IF ok THEN 0 ELSE 1

Exit ==
  /\ pc = "exit"
  /\ exitCode' = exit_status(exc, success)
  /\ pc' = "done"
  /\ UNCHANGED <<live, backup, stamped, example, live0, backup0, success, exc,
                 bkResult, scResult, rsResult, rsPre, restoreCalls, cmds, idx,
                 tgt, art>>
  /\ UNCHANGED <<ptable, mergeCmd, lib, tools>>

Next ==
  \/ Recover
  \/ Start
  \/ Backup
  \/ Scrub
  \/ Frontend
  \/ BuildFirmware
  \/ CopyFirmware
  \/ BuildFilesystem
  \/ CreateMergedBinary
  \/ CreateReleaseInfo
  \/ Restore
  \/ Exit

Spec == Init /\ [][Next]_vars

\* The steps of a run are blocking calls that return: a run that can take a
\* step eventually takes one.
FairSpec == Spec /\ WF_vars(Next)


(***************************************************************************)
(* The functions of the scripts called on their own.  The packager is at   *)
(* rest: no file, no step taken.                                           *)
(***************************************************************************)
run == <<live, backup, stamped, example, live0, backup0, success, exc,
         exitCode, bkResult, scResult, rsResult, rsPre, restoreCalls, cmds,
         idx, tgt, art, ptable, mergeCmd>>

AtRest ==
  /\ live = NoFile
  /\ backup = NoFile
  /\ stamped = NoFile
  /\ example = NoFile
  /\ live0 = NoFile
  /\ backup0 = NoFile
  /\ success = TRUE
  /\ exc = "none"
  /\ exitCode = -1
  /\ bkResult = "none"
  /\ scResult = "none"
  /\ rsResult = "none"
  /\ rsPre = <<NoFile, NoFile, NoFile, NoFile>>
  /\ restoreCalls = 0
  /\ cmds = <<>>
  /\ idx = 0
  /\ tgt = [i \in 1..MaxTargets |-> NoSteps]
  /\ art = {}
  /\ ptable = <<>>
  /\ mergeCmd = NoCmd

\* All texts of at most n characters.
RECURSIVE Texts(_, _)
Texts(chars, n) ==
  IF n = 0 THEN {<<>>}
  ELSE LET S == Texts(chars, n - 1)
       IN  S \cup {Append(t, c) : t \in S, c \in chars}

\* All sequences of at most n elements of S.
RECURSIVE SeqsUpTo(_, _)
SeqsUpTo(S, n) ==
  IF n = 0 THEN {<<>>}
  ELSE LET Q == SeqsUpTo(S, n - 1)
       IN  Q \cup {Append(q, x) : q \in Q, x \in S}

\* Offset fields: every text over these characters.
OffsetChars == {"0", "1", "a", "A", "x", "X"}
Offsets(n) == Texts(OffsetChars, n)

\* Name fields: littlefs, littlefs in mixed case between blanks, another
\* partition, a commented-out littlefs row.
MIXED == <<" ", "L", "i", "t", "t", "l", "e", "F", "S", " ">>
HASHED == <<"#", "l", "i", "t", "t", "l", "e", "f", "s">>
Names == {LITTLEFS, MIXED, NVS, HASHED}

\* Rows: blank lines, and rows of four fields (the size is missing) or five
\* with a hexadecimal, a padded decimal or an unparsable offset.
RowOffsets == {<<"0", "x", "1">>, <<" ", "1", "0">>, <<"x">>}
Rows ==
  {BlankRow} \cup
  {Row(n, name, o) : n \in {4, 5}, name \in Names, o \in RowOffsets}

\* The partitions files the resolver is called with: a missing file, every
\* table of at most MaxRows rows, and every offset in a littlefs row.
ResolverInputs(rows, len) ==
  {NoCsv} \cup {Csv(t) : t \in SeqsUpTo(Rows, rows)}
          \cup {Csv(<<Row(5, LITTLEFS, o)>>) : o \in Offsets(len)}

ResolverInit ==
  /\ AtRest
  /\ pc = "resolve"
  /\ arg \in ResolverInputs(MaxRows, MaxOffsetLen)
  /\ ret = <<>>
  /\ ToolsAtRest

\* fs_offset = _get_fs_offset_from_partitions(partitions_csv)
ResolveOffset ==
  /\ pc = "resolve"
  /\ ret' = <<_get_fs_offset_from_partitions(arg)>>
  /\ pc' = "return"
  /\ UNCHANGED <<arg, run, tools>>

ResolverSpec == ResolverInit /\ [][ResolveOffset]_vars


\* Headers the scrubber is called with: every text of at most MaxDocLen
\* tokens, each a field anchor or a quoted literal.
ScrubFields ==
  {get_secret_patterns[n].field : n \in 1..Len(get_secret_patterns)}
    \cup {"otherSetting"}
ScrubLiterals ==
  {"SuperSecret123", "abc123.s1.eu.hivemq.cloud", "mqtt.local",
   "YOUR_WIFI_PASSWORD", "YOUR_DEVICE_NAME", "sk-abcdefghijklmnopqrstuvwx",
   "sk-TEST_abcdefghijklmnopqrstuvwx", "A1b2C3d4E5f6G7h8I9j0K1l2M3n4O5p6Q7r8S9t0",
   "tok1234567890abcdef", "https://s123.betterstackdata.com",
   "https://user:pw@host.example/x"}
ScrubTokens == {Anc(f) : f \in ScrubFields} \cup {Lit(v) : v \in ScrubLiterals}
ScrubInputs(n) == SeqsUpTo(ScrubTokens, n)

ScrubberInit ==
  /\ AtRest
  /\ pc = "clean"
  /\ arg \in ScrubInputs(MaxDocLen)
  /\ ret = <<>>
  /\ ToolsAtRest

\* cleaned = clean_secrets_from_content(content), and once more on the text
\* it returned.
CleanSecrets ==
  /\ pc \in {"clean", "again"}
  /\ \E r \in {clean_secrets_result(IF pc = "clean" THEN arg ELSE ret[1].doc)} :
        /\ ret' = Append(ret, r)
        /\ pc' = IF pc = "clean" /\ r.kind = "return" THEN "again" ELSE "return"
  /\ UNCHANGED <<arg, run, tools>>

ScrubberSpec == ScrubberInit /\ [][CleanSecrets]_vars

\* Files is_config_already_clean is called on: a file that cannot be read,
\* and every text of at most MaxDocLen quoted literals.
CleanLiterals ==
  {"YOUR_WIFI_SSID", "YOUR_WIFI_PASSWORD", "YOUR_MQTT_SERVER.hivemq.cloud",
   "YOUR_MQTT_SERVER.example.org", "YOUR_DEVICE_NAME", "YOUR_BETTERSTACK_ENDPOINT",
   "SuperSecret123"}
CleanInputs(n) ==
  {NoFile} \cup {File(d) : d \in SeqsUpTo({Lit(v) : v \in CleanLiterals}, n)}

CleanCheckInit ==
  /\ AtRest
  /\ pc = "check"
  /\ arg \in CleanInputs(MaxDocLen)
  /\ ret = <<>>
  /\ ToolsAtRest

\* is_config_already_clean(config_path)
IsConfigAlreadyClean ==
  /\ pc = "check"
  /\ ret' = <<is_config_already_clean_path(arg)>>
  /\ pc' = "return"
  /\ UNCHANGED <<arg, run, tools>>

CleanCheckSpec == CleanCheckInit /\ [][IsConfigAlreadyClean]_vars

(***************************************************************************)
(* Properties                                                              *)
(***************************************************************************)
\* The run was started with --recover and recover_config has returned.
Recovering == pc \in {"recovered", "recover_failed"}

LooksClean(f) == f.ex /\ is_config_already_clean(f.data)
SecretBearing(f) == f.ex /\ ~is_config_already_clean(f.data)

\* C1: a run that starts with a secret-bearing live config x always has x
\* at the live path or at the backup path.
C1_OriginalNeverLost ==
  (SecretBearing(live0) /\ ~Recovering) => (live = live0 \/ backup = live0)

\* C2: when backup_config succeeded, nothing wrote the live config or the
\* backup afterwards, and restore_config then copied successfully, the live
\* config is the one the run started with.
C2_RoundTrip ==
  (/\ bkResult = "true"
   /\ restoreCalls = 1
   /\ rsResult = "true"
   /\ rsPre[1] = live0)
  => live = live0

\* C3: a run that has entered its backup step always reaches its end with
\* restore_config called exactly once, and after that call no file changes
\* and restore_config is not called again.
C3_RestoreAlwaysLast ==
  /\ (pc = "backup") ~> (pc = "done" /\ restoreCalls = 1)
  /\ [][restoreCalls >= 1 => (files' = files /\ restoreCalls' = restoreCalls)]_vars

C3_Witness ==
  /\ pc = "done"
  /\ restoreCalls = 1
  /\ exc = "SystemExit"
  /\ tgt[1].merge = "exit"
  /\ rsResult = "true"

\* C4: with a clean-looking live config and no backup file, backup_config
\* ends in the fatal error, the run exits non-zero, no file is created or
\* changed, and neither the scrub nor any build is invoked.
C4_CleanWithoutBackupRefused ==
  (LooksClean(live0) /\ ~backup0.ex)
  => /\ files = <<live0, backup0, NoFile, NoFile>>
     /\ bkResult \in {"none", "fatal"}
     /\ scResult = "none"
     /\ cmds = <<>>
     /\ (pc = "done" => exitCode # 0)

C4_Witness ==
  /\ LooksClean(live0)
  /\ ~backup0.ex
  /\ bkResult = "fatal"
  /\ restoreCalls = 1
  /\ pc = "done"
  /\ exitCode = 1

\* C5: when the scrubbed content of the live config fails the residual
\* secret scan, the example file is not written, the live config is not
\* written by the scrub, no build is invoked and the run exits non-zero.
C5_ResidualSecretAborts ==
  (live0.ex /\ ~validate_no_secrets_remain(clean_secrets_from_content(live0.data)))
  => /\ example = NoFile
     /\ scResult # "true"
     /\ ((restoreCalls = 0 /\ ~Recovering) => live = live0)
     /\ (restoreCalls = 1 => rsPre[1] = live0)
     /\ cmds = <<>>
     /\ (pc = "done" => exitCode # 0)

C5_Witness ==
  /\ live0 = File(LeakyDoc)
  /\ scResult = "exit"
  /\ pc = "done"
  /\ exitCode = 1

\* C6 as stated: with a secret-bearing live config and a clean-looking
\* backup, a successful backup_config leaves the backup file as it was and
\* writes the timestamped side-copy.
C6_Original ==
  (SecretBearing(live0) /\ LooksClean(backup0) /\ bkResult = "true")
  => (backup = backup0 /\ stamped = live0)

\* C6 amended: with a secret-bearing live config and a clean-looking backup,
\* backup_config attempts a timestamped side-copy of the live config and
\* then replaces the backup file by the live config; it does not change the
\* live config, and when it reports success the backup is the live config.
C6_CleanBackupReplaced ==
  (SecretBearing(live0) /\ LooksClean(backup0) /\ bkResult # "none")
  => /\ bkResult \in {"true", "false"}
     /\ (bkResult = "true" => backup = live0)
     /\ (bkResult = "false" => backup \in FailedWrite(live0.data, backup0))
     /\ stamped \in FailedWrite(live0.data, NoFile)
     /\ (pc = "scrub" => live = live0)

C6_Witness ==
  /\ SecretBearing(live0)
  /\ LooksClean(backup0)
  /\ pc = "scrub"
  /\ backup = live0
  /\ stamped = live0
  /\ live = live0

\* C7: (a) clean-looking live config with a backup, (b) secret-bearing live
\* config with a secret-bearing backup: backup_config reports success,
\* leaves the backup file as it was and writes no other file, and a
\* successful restore_config puts that backup at the live path.
C7_ExistingBackupKept ==
  (/\ backup0.ex
   /\ LooksClean(live0) \/ (SecretBearing(live0) /\ SecretBearing(backup0))
   /\ bkResult # "none")
  => /\ bkResult = "true"
     /\ backup = backup0
     /\ stamped = NoFile
     /\ (pc = "scrub" => (live = live0 /\ example = NoFile))
     /\ (rsResult = "true" => live = backup0)

C7_Witness ==
  /\ SecretBearing(live0)
  /\ SecretBearing(backup0)
  /\ live0 # backup0
  /\ bkResult = "true"
  /\ backup = backup0
  /\ pc = "done"
  /\ rsResult = "true"

\* C8 as stated: when the backup exists restore_config makes the live
\* config identical to it; when it does not exist nothing changes and the
\* call reports failure.
C8_Original ==
  restoreCalls = 1
  => IF rsPre[2].ex
     THEN live = rsPre[2] /\ backup = rsPre[2]
     ELSE files = rsPre /\ rsResult = "false"

\* C8 amended: restore_config never changes the backup or any file but the
\* live config; when the backup exists and the copy succeeds the live config
\* is identical to the backup and the call reports success; when the copy
\* fails it reports failure; when the backup does not exist no file changes
\* and the call reports failure.
C8_RestoreCopiesBackup ==
  restoreCalls = 1
  => /\ <<backup, stamped, example>> = <<rsPre[2], rsPre[3], rsPre[4]>>
     /\ (rsResult = "true" => (rsPre[2].ex /\ live = rsPre[2]))
     /\ (rsResult = "false" /\ rsPre[2].ex
           => live \in FailedWrite(rsPre[2].data, rsPre[1]))
     /\ (~rsPre[2].ex => (rsResult = "false" /\ live = rsPre[1]))

C8_Witness ==
  /\ restoreCalls = 1
  /\ rsResult = "true"
  /\ rsPre[1] # rsPre[2]
  /\ live = backup
  /\ scResult = "true"

\* C9: every external build command is invoked while the live config holds
\* the scrubbed content, which passed the residual-secret scan, and before
\* restore_config is called.
C9_BuildsSeeScrubbedConfig ==
  [][cmds' # cmds =>
       /\ scResult = "true"
       /\ live = File(clean_secrets_from_content(live0.data))
       /\ validate_no_secrets_remain(live.data)
       /\ restoreCalls = 0
       /\ restoreCalls' = 0]_vars

C9_Witness ==
  /\ live0 = File(SecretDoc)
  /\ live = File(CleanDoc)
  /\ restoreCalls = 0
  /\ Len(cmds) >= 4
  /\ cmds[Len(cmds)] = <<"esptool merge-bin", 1>>

\* C10: when the run has ended, every target that follows a target that was
\* attempted has been attempted too.
C10_TargetsIndependent ==
  pc = "done"
  => \A a, b \in 1..MaxTargets :
        (a < b /\ tgt[a].build # "none") => tgt[b].build # "none"

StepsOf(i) == {tgt[i].build, tgt[i].copy, tgt[i].fs, tgt[i].merge}

\* C11: a run ends with exit status 0 only when every step of every target
\* succeeded; a target that failed in its build, its packaging, its
\* filesystem build or its merge makes the run end non-zero.
C11_ExitReflectsTargets ==
  (pc = "done" /\ exitCode = 0)
  => \A i \in 1..MaxTargets : StepsOf(i) = {"ok"}

\* The frontend build is the only step besides the scrub and the target
\* builds that clears main's success flag.
FrontendFailed ==
  /\ scResult = "true"
  /\ ~success
  /\ \A i \in 1..MaxTargets : tgt[i].build # "fail"

EarlyFailure ==
  \/ bkResult \in {"false", "fatal"}
  \/ scResult \in {"false", "exit"}
  \/ FrontendFailed

\* C12: when backup_config, generate_clean_config or the frontend build
\* fails, no build, copy, filesystem build or merge is invoked for any
\* target, and the run goes on to call restore_config and ends non-zero.
C12_EarlyFailureSkipsTargets ==
  /\ [](EarlyFailure =>
          /\ \A i \in 1..MaxTargets : tgt[i] = NoSteps
          /\ \A k \in 1..Len(cmds) : cmds[k] = <<"npm run build", 0>>
          /\ (pc = "done" => (restoreCalls = 1 /\ exitCode # 0)))
  /\ EarlyFailure ~> (pc = "done" /\ restoreCalls = 1 /\ exitCode # 0)

C12_Witness ==
  /\ FrontendFailed
  /\ cmds = << <<"npm run build", 0>> >>
  /\ pc = "done"
  /\ restoreCalls = 1
  /\ exitCode = 1

\* A row whose name field, trimmed and in lower case, is littlefs.
NamedLittlefs(row) == row.n >= 1 /\ lower(strip(row.name)) = LITTLEFS
NoLittlefsRow(csv) ==
  csv.ex /\ \A k \in 1..Len(csv.rows) : ~NamedLittlefs(csv.rows[k])

\* C13: when the partitions file read for a target has no row named
\* littlefs, create_merged_binary ends in SystemExit without running the
\* merge command and without an offset; no merge command of that target is
\* ever invoked.
C13_NoLittlefsRowNoMerge ==
  [][/\ (pc = "merge" /\ ptable' # <<>> /\ NoLittlefsRow(ptable'[1]))
          => /\ tgt'[idx].merge = "exit"
             /\ exc' = "SystemExit"
             /\ pc' = "restore"
             /\ cmds' = cmds
             /\ mergeCmd' = NoCmd
     /\ \A i \in 1..MaxTargets :
          tgt'[i].merge = "exit"
          => \A k \in 1..Len(cmds') : cmds'[k] # <<"esptool merge-bin", i>>]_vars

C13_Witness ==
  /\ pc = "done"
  /\ ptable # <<>>
  /\ NoLittlefsRow(ptable[1])
  /\ tgt[idx].merge = "exit"
  /\ mergeCmd = NoCmd
  /\ exitCode = 1

\* The row the resolver reads the offset from: the first one with at least
\* five fields that is no comment and is named littlefs.
IsComment(row) == row.n >= 1 /\ startswith(strip(row.name), <<"#">>)
Matches(row) == row.n >= 5 /\ ~IsComment(row) /\ NamedLittlefs(row)
MatchingRows(csv) == {k \in 1..Len(csv.rows) : Matches(csv.rows[k])}
FirstOf(S) == CHOOSE k \in S : \A j \in S : k <= j

\* The trimmed offset field of that row.
OffsetField(csv) == strip(csv.rows[FirstOf(MatchingRows(csv))].offset)

IsDecimalLiteral(o) ==
  /\ o # <<>>
  /\ \A k \in 1..Len(o) : o[k] \in {"0", "1", "2", "3", "4", "5", "6", "7", "8", "9"}
  /\ (o[1] = "0" => \A k \in 1..Len(o) : o[k] = "0")

IsHexLiteral(o) ==
  /\ Len(o) >= 3
  /\ startswith(o, <<"0", "x">>)
  /\ \A k \in 3..Len(o) :
        o[k] \in {"0", "1", "2", "3", "4", "5", "6", "7", "8", "9",
                  "a", "b", "c", "d", "e", "f", "A", "B", "C", "D", "E", "F"}

\* The one canonical spelling: 0x, lower-case digits, no leading zero.
IsCanonicalHex(o) ==
  /\ Len(o) >= 3
  /\ startswith(o, <<"0", "x">>)
  /\ \A k \in 3..Len(o) :
        o[k] \in {"0", "1", "2", "3", "4", "5", "6", "7", "8", "9",
                  "a", "b", "c", "d", "e", "f"}
  /\ (o[3] = "0" => Len(o) = 3)

HasLiteralOffset ==
  /\ pc = "return"
  /\ arg.ex
  /\ MatchingRows(arg) # {}
  /\ IsDecimalLiteral(OffsetField(arg)) \/ IsHexLiteral(OffsetField(arg))

\* C14 as stated: for a littlefs offset written as a decimal or a 0x
\* hexadecimal literal the resolver returns the canonical hexadecimal
\* string of that integer, so that equal integers give identical strings.
C14_Original ==
  HasLiteralOffset
  => /\ ret[1].kind = "offset"
     /\ IsCanonicalHex(ret[1].value)
     /\ int0(ret[1].value) = int0(OffsetField(arg))

\* C14 amended: for a littlefs offset written as a decimal or a 0x
\* hexadecimal literal the resolver returns a 0x-prefixed hexadecimal
\* string denoting the same integer; for a decimal literal it is the
\* canonical one, and a 0x literal is returned as it is written.
C14_HexStringOfSameInteger ==
  HasLiteralOffset
  => /\ ret[1].kind = "offset"
     /\ IsHexLiteral(ret[1].value)
     /\ int0(ret[1].value) = int0(OffsetField(arg))
     /\ (IsDecimalLiteral(OffsetField(arg)) => IsCanonicalHex(ret[1].value))
     /\ (IsHexLiteral(OffsetField(arg)) => ret[1].value = OffsetField(arg))

C14_Witness ==
  /\ pc = "return"
  /\ arg = Csv(<<Row(5, LITTLEFS, <<"1", "0">>)>>)
  /\ ret = <<Returned(<<"0", "x", "a">>)>>

C16_ScrubIdempotent ==
  (Len(ret) >= 1 /\ ret[1].kind = "return" /\ pc # "again")
  => /\ Len(ret) = 2
     /\ ret[2].kind = "return"
     /\ ret[2].doc = ret[1].doc

C16_Witness ==
  /\ arg = <<Anc("defaultWifiPassword"), Lit("SuperSecret123"), Lit("mqtt.local")>>
  /\ Len(ret) = 2
  /\ ret[1].doc = <<Anc("defaultWifiPassword"), Lit("YOUR_WIFI_PASSWORD")>>
  /\ ret[2] = ret[1]

\* The positions of the tokens that are no literals, in order, and the run
\* of literals that follows position i.
NonLiterals(doc) ==
  LET S == {i \in 1..Len(doc) : doc[i].k # "lit"}
  IN  [k \in 1..Cardinality(S) |->
         CHOOSE i \in S : Cardinality({j \in S : j < i}) = k - 1]
ValueAt(doc, i) == SubSeq(doc, i + 1, SkipLits(doc, i + 1) - 1)

\* The rule of a recognised secret field.
Recognised(tok) ==
  tok.k = "anc" /\ \E n \in 1..Len(get_secret_patterns) : get_secret_patterns[n].field = tok.v
RuleOf(tok) ==
  get_secret_patterns[CHOOSE n \in 1..Len(get_secret_patterns) :
                        get_secret_patterns[n].field = tok.v]

BeginsWithKeyword == YourPrefixed

\* C18: when the scrubber returns a text, every secret-shaped literal in it
\* begins with one of the placeholder keywords.
C18_ShapedLiteralsArePlaceholders ==
  (Len(ret) >= 1 /\ ret[1].kind = "return")
  => \A i \in 1..Len(ret[1].doc) :
        (ret[1].doc[i].k = "lit" /\ ret[1].doc[i].v \in get_suspicious_patterns)
        => ret[1].doc[i].v \in BeginsWithKeyword

\* Placeholder n of the fixed set occurs in the text.
Occurs(n, doc) ==
  \E i \in 1..Len(doc) : doc[i].k = "lit" /\ doc[i].v \in placeholder_patterns[n]

\* C19: is_config_already_clean returns true exactly when the file can be
\* read and three distinct placeholders of the fixed set occur in it, however
\* often each of them occurs.
C19_ThreeDistinctPlaceholders ==
  pc = "return"
  => (ret[1] = TRUE
      <=> /\ arg.ex
          /\ \E a, b, c \in 1..Len(placeholder_patterns) :
                /\ a < b
                /\ b < c
                /\ Occurs(a, arg.data)
                /\ Occurs(b, arg.data)
                /\ Occurs(c, arg.data))

C19_Witness ==
  /\ pc = "return"
  /\ arg = File(<<Lit("YOUR_WIFI_SSID"), Lit("YOUR_WIFI_SSID"), Lit("YOUR_DEVICE_NAME")>>)
  /\ ret = <<FALSE>>

\* C20: in every run in which backup_config succeeds, a live config that
\* already looks clean included, generate_clean_config is the next step, and
\* a build is invoked only after it replaced the patterns in the live
\* config and the residual-secret scan passed on the result.
C20_ScrubNeverSkipped ==
  /\ (bkResult = "true" /\ pc # "scrub") => scResult # "none"
  /\ cmds # <<>>
       => /\ bkResult = "true"
          /\ scResult = "true"
          /\ (restoreCalls = 0
                => live = File(clean_secrets_from_content(live0.data)))
          /\ validate_no_secrets_remain(clean_secrets_from_content(live0.data))

C20_Witness ==
  /\ LooksClean(live0)
  /\ bkResult = "true"
  /\ scResult = "true"
  /\ Len(cmds) >= 2
  /\ restoreCalls = 0
  /\ live = File(clean_secrets_from_content(live0.data))

\* C21: the merge command is run only when the four images of the target
\* exist, with the bootloader at 0x0000 for the esp32c3 targets and at
\* 0x1000 otherwise, the partition table at 0x8000, the application at
\* 0x10000, and the filesystem at the normalised offset of the littlefs row
\* of the partitions file read for that target.
C21_MergeAddresses ==
  [][(cmds' # cmds /\ cmds'[Len(cmds')][1] = "esptool merge-bin")
       => /\ {"bl", "pt", "fw", "fs"} \subseteq art
          /\ cmds'[Len(cmds')][2] = idx
          /\ mergeCmd'.bootloader_addr =
               (IF targets[idx] \in {"esp32c3-prod", "esp32c3-prod-no-leds"}
                THEN "0x0000" ELSE "0x1000")
          /\ mergeCmd'.partitions_addr = "0x8000"
          /\ mergeCmd'.firmware_addr = "0x10000"
          /\ ptable' # <<>>
          /\ ptable'[1].ex
          /\ MatchingRows(ptable'[1]) # {}
          /\ Returned(mergeCmd'.fs_offset) = normalize_offset(OffsetField(ptable'[1]))]_vars

C21_Witness ==
  /\ targets[2] = "lolin32lite-no-leds"
  /\ tgt[2].merge = "ok"
  /\ mergeCmd.bootloader_addr = "0x1000"
  /\ mergeCmd.fs_offset = <<"0", "x", "2", "1", "0", "0", "0", "0">>
  /\ ptable # <<>>
  /\ OffsetField(ptable[1]) = OFFSET_DEC

\* No step of a release run has happened: no backup, scrub, build, merge or
\* release-notes step, no call of restore_config, and no file but the live
\* config differs from the start of the run.
NoReleaseStep ==
  /\ bkResult = "none"
  /\ scResult = "none"
  /\ rsResult = "none"
  /\ restoreCalls = 0
  /\ cmds = <<>>
  /\ idx = 0
  /\ art = {}
  /\ <<backup, stamped, example>> = <<backup0, NoFile, NoFile>>

\* C22 as stated: a --recover run performs no step of a release run; the
\* live config is the backup when the backup exists and does not look
\* clean, and otherwise the live config and the backup are unchanged.
C22_Original ==
  Recovering
  => /\ NoReleaseStep
     /\ IF SecretBearing(backup0) THEN live = backup0 ELSE live = live0

\* C22 amended: a --recover run performs no step of a release run and ends
\* after recover_config; when the backup exists and does not look clean the
\* live config is the backup if the copy succeeded and is unchanged or
\* partly written if the copy raised; when the backup is missing or looks
\* clean the live config and the backup are unchanged and recovery reports
\* failure.
C22_RecoverOnlyCopiesBackup ==
  [][/\ ~Recovering
     /\ Recovering'
          => /\ NoReleaseStep'
             /\ exitCode' = 0
             /\ IF SecretBearing(backup0)
                THEN /\ pc' = "recovered" => live' = backup0
                     /\ pc' = "recover_failed"
                          => live' \in FailedWrite(backup0.data, live0)
                ELSE live' = live0 /\ pc' = "recover_failed"]_vars

C22_Witness ==
  /\ pc = "recovered"
  /\ SecretBearing(backup0)
  /\ live0.ex
  /\ live0 # backup0
  /\ live = backup0
  /\ backup = backup0

\* C23: a release run that starts with the live config missing invokes no
\* scrub and no build, creates or modifies no file, and exits non-zero.
C23_MissingConfigTouchesNothing ==
  (~live0.ex /\ ~Recovering)
  => /\ scResult = "none"
     /\ cmds = <<>>
     /\ files = <<live0, backup0, NoFile, NoFile>>
     /\ (pc = "done" => exitCode # 0)

\* C26: when the copy to the backup path fails, the run performs no scrub
\* and no build and ends with the live config as it was at the start.
C26_FailedBackupKeepsLive ==
  bkResult = "false"
  => /\ scResult = "none"
     /\ cmds = <<>>
     /\ (pc = "done" => live = live0)

(***************************************************************************)
(* The PlatformIO custom targets build_upload_monitor and deploy_all       *)
(* (scripts/build_upload_monitor.py, scripts/deploy.py)                    *)
(***************************************************************************)
MaxCode == 2

\* Exit codes of a child process: -1 for one ended by a signal.
ExitCodes == (-1)..MaxCode

\* What the PlatformIO environment object answers: a name, nothing, or an
\* exception.
PioEnvs ==
  [get : {"", "esp32c3-dev", "raise"}, subst : {"", "lolin32lite-dev", "raise"}]

\* env_name = env.get("PIOENV") or env.subst("$PIOENV"), None (here "")
\* when either call raises.
resolve_env_name(e) ==
  IF e.get = "raise" THEN ""
  ELSE IF e.get # "" THEN e.get
  ELSE IF e.subst = "raise" THEN ""
  ELSE e.subst

\* The four steps, in the order of the function body.
workflow_steps == <<"npm run build", "uploadfs", "upload", "monitor">>

Command(step, code) ==
  [step |-> step, env |-> IF step \in {"uploadfs", "upload", "monitor"} THEN env_name ELSE "",
   code |-> code]

WorkflowInit ==
  /\ AtRest
  /\ pc = "start"
  /\ arg = <<>>
  /\ ret = <<>>
  /\ workflow \in {"build_upload_monitor", "deploy_all"}
  /\ wpc = "enter"
  /\ pioenv \in PioEnvs
  /\ env_name = ""
  /\ invoked = <<>>
  /\ returned = <<>>
  /\ OptimizerAtRest
  /\ SimulatorAtRest

\* The head of the function: build_upload_monitor resolves the environment
\* name and returns 1 without one; deploy_all names the environment main.
ResolveEnv ==
  /\ wpc = "enter"
  /\ env_name' = IF workflow = "deploy_all" THEN "main" ELSE resolve_env_name(pioenv)
  /\ IF env_name' = ""
     THEN wpc' = "returned" /\ returned' = <<1>>
     ELSE wpc' = "npm run build" /\ returned' = returned
  /\ UNCHANGED <<workflow, pioenv, invoked>>
  /\ UNCHANGED <<pc, run, lib, optimizerv, simulatorv>>

\* A result check that lets every exit code pass.
check_result_never(code, next) == [wpc |-> next, returned |-> returned]

\* if result != 0: return result -- where the function stands after the
\* check and what it has returned.
check_result(code, next) ==
  IF code # 0
  THEN [wpc |-> "returned", returned |-> <<code>>]
  ELSE [wpc |-> next, returned |-> returned]

\* Step 1: the frontend build.
BuildFrontend ==
  /\ wpc = "npm run build"
  /\ \E code \in ExitCodes :
       /\ invoked' = Append(invoked, Command("npm run build", code))
       /\ wpc' = check_result(code, "uploadfs").wpc
       /\ returned' = check_result(code, "uploadfs").returned
  /\ UNCHANGED <<workflow, pioenv, env_name>>
  /\ UNCHANGED <<pc, run, lib, optimizerv, simulatorv>>

\* Step 2: the filesystem upload.
UploadFilesystem ==
  /\ wpc = "uploadfs"
  /\ \E code \in ExitCodes :
       /\ invoked' = Append(invoked, Command("uploadfs", code))
       /\ wpc' = check_result(code, "upload").wpc
       /\ returned' = check_result(code, "upload").returned
  /\ UNCHANGED <<workflow, pioenv, env_name>>
  /\ UNCHANGED <<pc, run, lib, optimizerv, simulatorv>>

\* Step 3: the firmware upload; build_upload_monitor goes on to the sound.
UploadFirmware ==
  /\ wpc = "upload"
  /\ \E code \in ExitCodes :
       LET next == IF workflow = "build_upload_monitor" THEN "afplay" ELSE "monitor"
       IN  /\ invoked' = Append(invoked, Command("upload", code))
           /\ wpc' = check_result(code, next).wpc
           /\ returned' = check_result(code, next).returned
  /\ UNCHANGED <<workflow, pioenv, env_name>>
  /\ UNCHANGED <<pc, run, lib, optimizerv, simulatorv>>

\* build_upload_monitor plays a sound: the player runs with any result, or
\* cannot be started, and the function goes on either way.
PlaySound ==
  /\ wpc = "afplay"
  /\ \/ \E code \in ExitCodes : invoked' = Append(invoked, Command("afplay", code))
     \/ invoked' = invoked
  /\ wpc' = "monitor"
  /\ UNCHANGED <<workflow, pioenv, env_name, returned>>
  /\ UNCHANGED <<pc, run, lib, optimizerv, simulatorv>>

\* The serial monitor is run and the function returns 0.
Monitor ==
  /\ wpc = "monitor"
  /\ \E code \in ExitCodes : invoked' = Append(invoked, Command("monitor", code))
  /\ wpc' = "returned"
  /\ returned' = <<0>>
  /\ UNCHANGED <<workflow, pioenv, env_name>>
  /\ UNCHANGED <<pc, run, lib, optimizerv, simulatorv>>

WorkflowNext ==
  \/ ResolveEnv
  \/ BuildFrontend
  \/ UploadFilesystem
  \/ UploadFirmware
  \/ PlaySound
  \/ Monitor

WorkflowSpec == WorkflowInit /\ [][WorkflowNext]_vars

IsStep(c) == c.step # "afplay"

\* The steps invoked so far, the sound left out.
StepsInvoked == SelectSeq(invoked, IsStep)

\* The steps are invoked in the order of workflow_steps, each only after
\* every earlier one returned 0.
InOrderAfterSuccess ==
  /\ Len(StepsInvoked) <= Len(workflow_steps)
  /\ \A i \in 1..Len(StepsInvoked) :
       /\ StepsInvoked[i].step = workflow_steps[i]
       /\ \A j \in 1..(i - 1) : StepsInvoked[j].code = 0

\* C27 as stated: the steps run in order, each only after every earlier one
\* returned 0; the workflow returns the exit code of the first failing step
\* and invokes nothing after it, and returns 1 with nothing invoked when
\* the environment name cannot be determined.
C27_Original ==
  /\ InOrderAfterSuccess
  /\ \A i \in 1..Len(invoked) :
       invoked[i].code # 0 /\ IsStep(invoked[i])
         => i = Len(invoked) /\ (wpc = "returned" => returned = <<invoked[i].code>>)
  /\ (workflow = "build_upload_monitor" /\ resolve_env_name(pioenv) = "" /\ wpc # "enter")
       => (invoked = <<>> /\ returned = <<1>>)

\* C27 amended: the steps run in order, each only after every earlier one
\* returned 0; a failing frontend build, filesystem upload or firmware
\* upload is the last command invoked and its exit code is returned; once
\* the serial monitor has been invoked the workflow returns 0 whatever the
\* monitor returned; build_upload_monitor returns 1 with nothing invoked
\* when the environment name cannot be determined.
C27_StepsInOrderUntilFailure ==
  /\ InOrderAfterSuccess
  /\ \A i \in 1..Len(invoked) :
       invoked[i].code # 0 /\ invoked[i].step \in {"npm run build", "uploadfs", "upload"}
         => i = Len(invoked) /\ wpc = "returned" /\ returned = <<invoked[i].code>>
  /\ (wpc = "returned" /\ invoked # <<>> /\ invoked[Len(invoked)].step = "monitor")
       => returned = <<0>>
  /\ (workflow = "build_upload_monitor" /\ resolve_env_name(pioenv) = "" /\ wpc # "enter")
       => (invoked = <<>> /\ returned = <<1>>)
  /\ \A i \in 1..Len(invoked) :
       invoked[i].env = (IF invoked[i].step \in {"npm run build", "afplay"} THEN ""
                         ELSE IF workflow = "deploy_all" THEN "main"
                         ELSE resolve_env_name(pioenv))

C27_Witness ==
  /\ workflow = "build_upload_monitor"
  /\ wpc = "returned"
  /\ returned = <<-1>>
  /\ Len(invoked) = 3
  /\ invoked[3] = [step |-> "upload", env |-> "lolin32lite-dev", code |-> -1]

(***************************************************************************)
(* build_optimized_filesystem (scripts/bin/optimize_filesystem.py and the  *)
(* older scripts/optimize_filesystem.py, here "bin" and "legacy")          *)
(***************************************************************************)
MaxFiles == 1
MaxMtime == 2

\* A path below the data directory: its directories, and its file name as
\* an optional prefix, the stem and the extension (in characters).
Path(dir, pre, stem, ext) == [dir |-> dir, pre |-> pre, stem |-> stem, ext |-> ext]

DOT_HTML == <<".", "h", "t", "m", "l">>
DOT_CSS == <<".", "c", "s", "s">>
DOT_JS == <<".", "j", "s">>
DOT_SVG == <<".", "s", "v", "g">>
DOT_JSON == <<".", "j", "s", "o", "n">>
DOT_WEBMANIFEST == <<".", "w", "e", "b", "m", "a", "n", "i", "f", "e", "s", "t">>
DOT_TXT == <<".", "t", "x", "t">>
DOT_PNG == <<".", "p", "n", "g">>
DOT_ICO == <<".", "i", "c", "o">>
DOT_MD == <<".", "m", "d">>

\* The paths the directories of the model can hold.
DataPaths ==
  {Path(<<>>, "", "setup", DOT_HTML),
   Path(<<>>, "", "index", DOT_HTML),
   Path(<<"sub">>, "", "setup", DOT_HTML),
   Path(<<>>, "x", "setup", DOT_HTML),
   Path(<<"images">>, "", "ScribeLogoMain-black", DOT_SVG),
   Path(<<>>, "", "site", DOT_WEBMANIFEST),
   Path(<<>>, "", "print", <<".", "C", "S", "S">>),
   Path(<<>>, "", "notes", DOT_TXT),
   Path(<<>>, "", "favicon", DOT_PNG)}

AGENTS_MD == Path(<<>>, "", "AGENTS", DOT_MD)

ap_essentials(s) ==
  {Path(<<>>, "", "setup", DOT_HTML),
   Path(<<"js">>, "", "page-setup", DOT_JS),
   Path(<<"js">>, "", "app-common", DOT_JS),
   Path(<<"js">>, "", "alpine", DOT_JS),
   Path(<<"css">>, "", "app", DOT_CSS)}
    \cup (IF s = "bin" THEN {Path(<<>>, "", "site", DOT_WEBMANIFEST)} ELSE {})

readme_assets ==
  {Path(<<"images">>, "", "ScribeLogoMain-black", DOT_SVG),
   Path(<<"images">>, "", "ScribeLogoMain-white", DOT_SVG)}

keep_uncompressed(s) ==
  IF s = "bin" THEN ap_essentials(s) \cup readme_assets ELSE ap_essentials(s)

compressible_extensions(s) ==
  {DOT_HTML, DOT_CSS, DOT_JS, DOT_SVG, DOT_JSON}
    \cup (IF s = "bin" THEN {DOT_WEBMANIFEST, DOT_TXT} ELSE {})

file_patterns == {DOT_HTML, DOT_PNG, DOT_ICO, DOT_WEBMANIFEST, DOT_SVG}

\* The directories of p end with those of e.
DirsEndWith(p, e) ==
  /\ Len(p.dir) >= Len(e.dir)
  /\ SubSeq(p.dir, Len(p.dir) - Len(e.dir) + 1, Len(p.dir)) = e.dir

\* bin: relative_path == essential or relative_path.endswith("/" + essential)
\* legacy: relative_path.endswith(essential)
is_protected(s, p) ==
  \E e \in keep_uncompressed(s) :
    /\ p.stem = e.stem
    /\ p.ext = e.ext
    /\ DirsEndWith(p, e)
    /\ IF s = "bin" THEN p.pre = "" ELSE (e.dir = <<>> \/ p.pre = "")

\* A stored file with its modification time, and no file.
Stored(c, m) == [ex |-> TRUE, data |-> c, mtime |-> m]
Missing == [ex |-> FALSE, data |-> <<>>, mtime |-> 0]

\* gzip at level 9, and its inverse.
gzip(c) == <<"gzip9">> \o c
gunzip(z) == Tail(z)

Contents == {<<"v1">>, <<"v2">>}
Mtimes == 1..MaxMtime
Now == MaxMtime + 1

AllPaths == DataPaths \cup {AGENTS_MD}
Nothing == [p \in AllPaths |-> [plain |-> Missing, gz |-> Missing]]
NoAssets == [p \in AllPaths |-> Missing]

\* The data directories with at most n paths in use, each with the file,
\* its .gz sibling, or both.
RECURSIVE DataDirs(_)
DataDirs(n) ==
  IF n = 0 THEN {Nothing}
  ELSE LET D == DataDirs(n - 1)
       IN  D \cup {[d EXCEPT ![p] = [plain |-> f, gz |-> g]] :
                     d \in D, p \in DataPaths,
                     f \in {Missing} \cup {Stored(c, m) : c \in Contents, m \in Mtimes},
                     g \in {Missing} \cup {Stored(gzip(c), m) : c \in Contents, m \in Mtimes}}

\* The source directories with at most n files.
RECURSIVE StaticDirs(_)
StaticDirs(n) ==
  IF n = 0 THEN {NoAssets}
  ELSE LET D == StaticDirs(n - 1)
       IN  D \cup {[d EXCEPT ![p] = Stored(<<"v2">>, m)] :
                     d \in D, p \in DataPaths, m \in Mtimes}

InUse(d, a) == {p \in AllPaths : d[p].plain.ex \/ d[p].gz.ex \/ a[p].ex}

\* The first stage: the data directory after the static assets (and, in
\* bin, the warning file) have been copied into d from a. legacy empties the
\* data directory first; bin removes each directory it is about to copy.
copy_assets(s, d, a, t) ==
  LET dirs == {p.dir[1] : p \in {q \in AllPaths : a[q].ex /\ q.dir # <<>>}}
      kept(p) == IF s = "legacy" \/ (p.dir # <<>> /\ p.dir[1] \in dirs)
                 THEN [plain |-> Missing, gz |-> Missing]
                 ELSE d[p]
      copied(p) == a[p].ex /\ (p.dir # <<>> \/ p.ext \in file_patterns)
  IN  [p \in AllPaths |->
         IF p = AGENTS_MD /\ s = "bin" /\ t.ex
         THEN [kept(p) EXCEPT !.plain = Stored(t.data, 1)]
         ELSE IF copied(p) THEN [kept(p) EXCEPT !.plain = a[p]]
         ELSE kept(p)]

\* bin compresses only when there is no .gz or the file is newer than it.
should_compress(s, e) ==
  IF s = "bin" THEN ~e.gz.ex \/ e.plain.mtime > e.gz.mtime ELSE TRUE

\* The body of the walk for one file: the entry of the path afterwards.
optimize_file(s, p, e) ==
  IF lower(p.ext) \notin compressible_extensions(s) THEN e
  ELSE LET z == IF should_compress(s, e) THEN Stored(gzip(e.plain.data), Now) ELSE e.gz
       IN  [plain |-> IF is_protected(s, p) THEN e.plain ELSE Missing, gz |-> z]

OptimizerInit ==
  /\ AtRest
  /\ pc = "start"
  /\ arg = <<>>
  /\ ret = <<>>
  /\ WorkflowAtRest
  /\ SimulatorAtRest
  /\ script \in {"bin", "legacy"}
  /\ opc = "copy"
  /\ data \in DataDirs(MaxFiles)
  /\ static \in StaticDirs(MaxFiles)
  /\ Cardinality(InUse(data, static)) <= MaxFiles
  /\ template \in {NoFile, File(<<"warning">>)}
  /\ walked = <<>>
  /\ todo = {}

\* Lines 40-74 of bin, 29-60 of legacy: copy the static assets.
CopyAssets ==
  /\ opc = "copy"
  /\ data' = copy_assets(script, data, static, template)
  /\ walked' = data'
  /\ todo' = {p \in AllPaths : data'[p].plain.ex}
  /\ opc' = "walk"
  /\ UNCHANGED <<script, static, template>>
  /\ UNCHANGED <<pc, run, lib, workflowv, simulatorv>>

\* One iteration of the walk, for a file that is not a .gz file.
OptimizeFile ==
  /\ opc = "walk"
  /\ \E p \in todo :
       /\ data' = [data EXCEPT ![p] = optimize_file(script, p, data[p])]
       /\ todo' = todo \ {p}
  /\ UNCHANGED <<script, opc, static, template, walked>>
  /\ UNCHANGED <<pc, run, lib, workflowv, simulatorv>>

\* The walk is over and the function returns.
FinishWalk ==
  /\ opc = "walk"
  /\ todo = {}
  /\ opc' = "done"
  /\ UNCHANGED <<script, data, static, template, walked, todo>>
  /\ UNCHANGED <<pc, run, lib, workflowv, simulatorv>>

OptimizerNext ==
  \/ CopyAssets
  \/ OptimizeFile
  \/ FinishWalk

OptimizerSpec == OptimizerInit /\ [][OptimizerNext]_vars

\* The extensions and the protected paths the data directory is specified
\* with: those of bin.
Compressible(p) == lower(p.ext) \in compressible_extensions("bin")
Protected(p) == is_protected("bin", p)

\* C28: when build_optimized_filesystem has completed, every compressible
\* file the data directory held has a .gz sibling with the compression of
\* its content, the uncompressed file remains exactly when its path is
\* protected, and no uncompressed file is gone without its .gz.
C28_CompressedAndProtected ==
  opc = "done"
  => \A p \in AllPaths :
       (walked[p].plain.ex /\ Compressible(p))
         => /\ data[p].gz.ex
            /\ gunzip(data[p].gz.data) = walked[p].plain.data
            /\ data[p].plain.ex <=> Protected(p)
            /\ data[p].plain.ex => data[p].plain = walked[p].plain

(***************************************************************************)
(* The printer discovery simulator (scripts/bin/printer_discovery_sim.py): *)
(* the broker settings of main()                                           *)
(***************************************************************************)
\* A variable or flag that is not given, and one given with value v.
Unset == <<>>
Given(v) == <<v>>

\* get_env_value(key, default)
get_env_value(key, default) == IF environ[key] = Unset THEN default ELSE environ[key][1]

\* int(text) in base 10: ValueError for a text that is not all digits.
IsInt(t) == t # <<>> /\ \A k \in 1..Len(t) : IsDigit(t[k], 10)
int(t) == IF IsInt(t) THEN ValueOf(t, 10) ELSE ValueError

\* str.lower() on the values of MQTT_USE_TLS.
lower_word(w) ==
  CASE w = "TRUE" -> "true" [] w = "True" -> "true" [] w = "YES" -> "yes" [] OTHER -> w

Environs ==
  [MQTT_HOST : {Unset, Given("broker.example.org")},
   MQTT_PORT : {Unset, Given(<<"8", "8", "8", "3">>), Given(<<"1", "8", "8", "4">>),
                Given(<<"m", "q", "t", "t">>)},
   MQTT_USERNAME : {Unset, Given("envuser")},
   MQTT_PASSWORD : {Unset, Given("envpass")},
   MQTT_USE_TLS : {Unset, Given("true"), Given("TRUE"), Given("yes")}]

\* The flags argparse accepts: --tls and --no-tls exclude each other.
Flags ==
  {a \in [host : {Unset, Given("cli.example.org")},
          port : {Unset, Given(8883), Given(1885)},
          username : {Unset, Given("cliuser")},
          password : {Unset, Given("clipass")},
          tls : BOOLEAN, no_tls : BOOLEAN] : ~(a.tls /\ a.no_tls)}

\* parser.add_argument(flag, default=d): the flag's value, or the default.
parse_arg(flag, d) == IF flag = Unset THEN d ELSE flag[1]

\* The if/elif/else of main(): --no-tls moves the port to 1883 when the
\* parsed port is the default port and that is 8883.
broker_port(port, default_port, no_tls) ==
  IF no_tls /\ port = default_port /\ default_port = 8883 THEN 1883 ELSE port

use_tls(a, default_tls) ==
  IF a.no_tls THEN FALSE ELSE IF a.tls THEN TRUE ELSE default_tls

SimArgsInit ==
  /\ AtRest
  /\ pc = "start"
  /\ arg = <<>>
  /\ ret = <<>>
  /\ WorkflowAtRest
  /\ OptimizerAtRest
  /\ environ \in Environs
  /\ args \in Flags
  /\ spc = "main"
  /\ simulator = <<>>
  /\ NoSessions

\* main() up to the construction of the simulator; int() of a MQTT_PORT
\* that is no number raises ValueError and ends the process.
CreateSimulator ==
  /\ spc = "main"
  /\ LET default_host == get_env_value("MQTT_HOST", "localhost")
         default_port == int(get_env_value("MQTT_PORT", <<"1", "8", "8", "3">>))
         default_username == get_env_value("MQTT_USERNAME", "")
         default_password == get_env_value("MQTT_PASSWORD", "")
         default_tls == lower_word(get_env_value("MQTT_USE_TLS", "false")) = "true"
     IN  IF default_port = ValueError
         THEN spc' = "ValueError" /\ simulator' = simulator
         ELSE /\ spc' = "created"
              /\ simulator' =
                   [broker_host |-> parse_arg(args.host, default_host),
                    broker_port |-> broker_port(parse_arg(args.port, default_port),
                                                default_port, args.no_tls),
                    username |-> parse_arg(args.username, default_username),
                    password |-> parse_arg(args.password, default_password),
                    use_tls |-> use_tls(args, default_tls)]
  /\ UNCHANGED <<environ, args, mode, clients, sessions, mainT, listenerT>>
  /\ UNCHANGED <<pc, run, lib, workflowv, optimizerv>>

SimArgsSpec == SimArgsInit /\ [][CreateSimulator]_vars

\* The value the flag gives, else the one the environment gives, else d.
FlagEnvDefault(flag, key, d) ==
  IF flag # Unset THEN flag[1] ELSE IF environ[key] # Unset THEN environ[key][1] ELSE d

\* C25: the broker host, port, username and password of the simulator are
\* the flag's value when the flag is given, else the environment's, else
\* the default; TLS is off with --no-tls, on with --tls, else as
\* MQTT_USE_TLS says.
C25_FlagThenEnvThenDefault ==
  spc = "created"
  => /\ simulator.broker_host = FlagEnvDefault(args.host, "MQTT_HOST", "localhost")
     /\ simulator.broker_port =
          (IF args.port # Unset THEN args.port[1]
           ELSE IF environ["MQTT_PORT"] # Unset THEN ValueOf(environ["MQTT_PORT"][1], 10)
           ELSE 1883)
     /\ simulator.username = FlagEnvDefault(args.username, "MQTT_USERNAME", "")
     /\ simulator.password = FlagEnvDefault(args.password, "MQTT_PASSWORD", "")
     /\ simulator.use_tls =
          (IF args.no_tls THEN FALSE
           ELSE IF args.tls THEN TRUE
           ELSE environ["MQTT_USE_TLS"] \in {Given("true"), Given("TRUE")})

(***************************************************************************)
(* The printer discovery simulator: the printer sessions                   *)
(***************************************************************************)
MaxSessions == 2

PrinterNames == {"Kitchen", "Study"}

\* name.lower() on the printer names.
lower_name(n) ==
  CASE n = "Kitchen" -> "kitchen" [] n = "Study" -> "study" [] OTHER -> n

\* f"scribe/printer-status/{name.lower()}"
topic(n) == <<"scribe", "printer-status", lower_name(n)>>

\* run_scenario(simulator, "home"): the printers it starts, in order.
home == <<"Kitchen", "Study">>

\* An MQTT client after connect() and loop_start(): the last retained
\* message it has published, and the shutdown paths that have handled it.
Session(n, tls) ==
  [name |-> n, tls |-> tls, conn |-> "connected", loop |-> TRUE,
   retained |-> [topic |-> <<>>, status |-> "none"], by |-> {}]

NoClients == [n \in PrinterNames |-> 0]

\* list(self.clients.keys()), in any order.
keys(c) == {n \in PrinterNames : c[n] # 0}

\* client.publish(topic, payload, qos=1, retain=True) returning rc.
publish(ss, i, status, rc) ==
  IF rc = 0
  THEN [ss EXCEPT ![i].retained = [topic |-> topic(ss[i].name), status |-> status]]
  ELSE ss

\* The process is running: main has not returned or died, os._exit has not
\* been called.
Alive == spc \notin {"returned", "KeyError", "killed"}

SessionInit ==
  /\ AtRest
  /\ pc = "start"
  /\ arg = <<>>
  /\ ret = <<>>
  /\ WorkflowAtRest
  /\ OptimizerAtRest
  /\ environ = <<>>
  /\ args = <<>>
  /\ simulator \in {[broker_host |-> "localhost", broker_port |-> 1883,
                     username |-> "", password |-> "", use_tls |-> FALSE],
                    [broker_host |-> "localhost", broker_port |-> 8883,
                     username |-> "", password |-> "", use_tls |-> TRUE]}
  /\ mode \in {"interactive", "scenario"}
  /\ spc = IF mode = "interactive" THEN "prompt" ELSE "scenario"
  /\ clients = NoClients
  /\ sessions = <<>>
  /\ mainT = [queue |-> IF mode = "scenario" THEN home ELSE <<>>, keys |-> {},
              cur |-> "", pending |-> 0, back |-> "", ctrl_c |-> FALSE]
  /\ listenerT = [pc |-> "off", keys |-> {}]

\* self.clients[name] = client
start_registers(c, n, i) == [c EXCEPT ![n] = i]

\* start_printer(name, ...) up to time.sleep(1): connect() and loop_start()
\* succeed, or connect() raises; an SSL/TLS error with use_tls set goes to
\* _try_fallback_connection, which connects without TLS or fails too. m is
\* mainT on entry, back the place the call returns to.
start_printer(n, back, m) ==
  /\ Len(sessions) < MaxSessions
  /\ \E connect \in {"ok", "SSL error", "Connection refused"} :
       \E retry \in {"ok", "Connection refused"} :
         IF connect = "ok"
         THEN /\ sessions' = Append(sessions, Session(n, simulator.use_tls))
              /\ spc' = "start_sleep"
              /\ mainT' = [m EXCEPT !.pending = Len(sessions) + 1, !.back = back]
         ELSE IF connect = "SSL error" /\ simulator.use_tls /\ retry = "ok"
         THEN /\ sessions' = Append(sessions, Session(n, FALSE))
              /\ spc' = "fallback_sleep"
              /\ mainT' = [m EXCEPT !.pending = Len(sessions) + 1, !.back = back]
         ELSE /\ sessions' = sessions
              /\ spc' = back
              /\ mainT' = m
  /\ UNCHANGED clients

\* stop_printer(name, graceful) up to time.sleep(0.5) when graceful, all of
\* it when not.
stop_printer(n, graceful, back, m) ==
  IF clients[n] = 0
  THEN /\ spc' = back
       /\ mainT' = m
       /\ UNCHANGED <<clients, sessions>>
  ELSE IF graceful
  THEN /\ \E rc \in {0, 4} :
            sessions' = [publish(sessions, clients[n], "offline", rc)
                           EXCEPT ![clients[n]].by = @ \cup {"main"}]
       /\ spc' = "stop_sleep"
       /\ mainT' = [m EXCEPT !.cur = n, !.back = back]
       /\ UNCHANGED clients
  ELSE /\ sessions' = [sessions EXCEPT ![clients[n]].conn = "closed",
                                       ![clients[n]].loop = FALSE,
                                       ![clients[n]].by = @ \cup {"main"}]
       /\ clients' = [clients EXCEPT ![n] = 0]
       /\ spc' = back
       /\ mainT' = m

\* stop_all(): the names to stop are listed first.
stop_all(m) ==
  /\ spc' = "stop_all"
  /\ mainT' = [m EXCEPT !.keys = keys(clients), !.queue = <<>>, !.pending = 0]
  /\ UNCHANGED <<clients, sessions>>

Others == <<pc, run, lib, workflowv, optimizerv, environ, args, simulator, mode>>

\* scribe-test> start <name>
CmdStart ==
  /\ spc = "prompt"
  /\ \E n \in PrinterNames : start_printer(n, "prompt", mainT)
  /\ UNCHANGED <<listenerT, Others>>

\* The rest of start_printer: the online status is published and the
\* client is entered in clients, whatever the publish returned.
Register ==
  /\ spc = "start_sleep"
  /\ \E rc \in {0, 4} : sessions' = publish(sessions, mainT.pending, "online", rc)
  /\ clients' = start_registers(clients, sessions[mainT.pending].name, mainT.pending)
  /\ spc' = mainT.back
  /\ mainT' = [mainT EXCEPT !.pending = 0]
  /\ UNCHANGED <<listenerT, Others>>

\* The rest of _try_fallback_connection: the client is entered in clients
\* only when the publish returned 0.
RegisterFallback ==
  /\ spc = "fallback_sleep"
  /\ \E rc \in {0, 4} :
       /\ sessions' = publish(sessions, mainT.pending, "online", rc)
       /\ clients' = IF rc = 0
                     THEN start_registers(clients, sessions[mainT.pending].name, mainT.pending)
                     ELSE clients
  /\ spc' = mainT.back
  /\ mainT' = [mainT EXCEPT !.pending = 0]
  /\ UNCHANGED <<listenerT, Others>>

\* scribe-test> stop <name> [abrupt]
CmdStop ==
  /\ spc = "prompt"
  /\ \E n \in PrinterNames, graceful \in BOOLEAN : stop_printer(n, graceful, "prompt", mainT)
  /\ UNCHANGED <<listenerT, Others>>

\* The rest of a graceful stop_printer: disconnect(), loop_stop() and del,
\* each through self.clients[name].
Disconnect ==
  /\ spc = "stop_sleep"
  /\ IF clients[mainT.cur] = 0
     THEN /\ spc' = "KeyError"
          /\ UNCHANGED <<clients, sessions>>
     ELSE /\ sessions' = [sessions EXCEPT ![clients[mainT.cur]].conn = "disconnected",
                                          ![clients[mainT.cur]].loop = FALSE]
          /\ clients' = [clients EXCEPT ![mainT.cur] = 0]
          /\ spc' = mainT.back
  /\ mainT' = [mainT EXCEPT !.cur = ""]
  /\ UNCHANGED <<listenerT, Others>>

\* scribe-test> status <name> <status>, for a printer that is there.
CmdStatus ==
  /\ spc = "prompt"
  /\ \E n \in keys(clients), status \in {"online", "offline"}, rc \in {0, 4} :
       /\ sessions' = publish(sessions, clients[n], status, rc)
       /\ sessions' # sessions
  /\ UNCHANGED <<spc, clients, mainT, listenerT, Others>>

\* scribe-test> scenario home
CmdScenario ==
  /\ spc = "prompt"
  /\ spc' = "scenario"
  /\ mainT' = [mainT EXCEPT !.queue = home]
  /\ UNCHANGED <<clients, sessions, listenerT, Others>>

\* run_scenario: the next printer of the scenario is started.
ScenarioStep ==
  /\ spc = "scenario"
  /\ mainT.queue # <<>>
  /\ start_printer(Head(mainT.queue), "scenario", [mainT EXCEPT !.queue = Tail(@)])
  /\ UNCHANGED <<listenerT, Others>>

\* run_scenario returns: to the prompt, or main() starts the keyboard
\* listener and sleeps.
ScenarioDone ==
  /\ spc = "scenario"
  /\ mainT.queue = <<>>
  /\ IF mode = "interactive"
     THEN spc' = "prompt" /\ listenerT' = listenerT
     ELSE spc' = "idle" /\ listenerT' = [listenerT EXCEPT !.pc = "listening"]
  /\ UNCHANGED <<clients, sessions, mainT, Others>>

\* scribe-test> quit
CmdQuit ==
  /\ spc = "prompt"
  /\ stop_all(mainT)
  /\ UNCHANGED <<listenerT, Others>>

\* Ctrl+C: KeyboardInterrupt in the main thread, wherever it waits; the
\* handler calls stop_all().
KeyboardInterrupt ==
  /\ spc \in {"prompt", "scenario", "start_sleep", "fallback_sleep", "stop_sleep", "idle"}
  /\ ~mainT.ctrl_c
  /\ stop_all([mainT EXCEPT !.ctrl_c = TRUE])
  /\ UNCHANGED <<listenerT, Others>>

\* The loop of stop_all(): the next name is stopped gracefully.
StopAllStep ==
  /\ spc = "stop_all"
  /\ \E n \in mainT.keys :
       stop_printer(n, TRUE, "stop_all", [mainT EXCEPT !.keys = @ \ {n}])
  /\ UNCHANGED <<listenerT, Others>>

\* stop_all() and then main() return.
StopAllDone ==
  /\ spc = "stop_all"
  /\ mainT.keys = {}
  /\ spc' = "returned"
  /\ UNCHANGED <<clients, sessions, mainT, listenerT, Others>>

\* The listener reads "x": _abrupt_shutdown lists the names.
KeyX ==
  /\ Alive
  /\ listenerT.pc = "listening"
  /\ listenerT' = [pc |-> "abrupt", keys |-> keys(clients)]
  /\ UNCHANGED <<spc, clients, sessions, mainT, Others>>

\* The loop of _abrupt_shutdown: socket closed, loop stopped, entry
\* deleted, each through self.simulator.clients[name]; a KeyError ends the
\* thread.
AbruptStep ==
  /\ Alive
  /\ listenerT.pc = "abrupt"
  /\ \E n \in listenerT.keys :
       IF clients[n] = 0
       THEN /\ listenerT' = [listenerT EXCEPT !.pc = "KeyError"]
            /\ UNCHANGED <<clients, sessions>>
       ELSE /\ sessions' = [sessions EXCEPT ![clients[n]].conn = "closed",
                                            ![clients[n]].loop = FALSE,
                                            ![clients[n]].by = @ \cup {"listener"}]
            /\ clients' = [clients EXCEPT ![n] = 0]
            /\ listenerT' = [listenerT EXCEPT !.keys = @ \ {n}]
  /\ UNCHANGED <<spc, mainT, Others>>

\* os._exit(0) at the end of _abrupt_shutdown.
AbruptExit ==
  /\ Alive
  /\ listenerT.pc = "abrupt"
  /\ listenerT.keys = {}
  /\ listenerT' = [listenerT EXCEPT !.pc = "exit"]
  /\ spc' = "killed"
  /\ UNCHANGED <<clients, sessions, mainT, Others>>

SessionNext ==
  \/ CmdStart
  \/ Register
  \/ RegisterFallback
  \/ CmdStop
  \/ Disconnect
  \/ CmdStatus
  \/ CmdScenario
  \/ ScenarioStep
  \/ ScenarioDone
  \/ CmdQuit
  \/ KeyboardInterrupt
  \/ StopAllStep
  \/ StopAllDone
  \/ KeyX
  \/ AbruptStep
  \/ AbruptExit

SessionSpec == SessionInit /\ [][SessionNext]_vars

\* A session that is connected with its network loop running.
Live(i) == sessions[i].conn = "connected" /\ sessions[i].loop

\* C24: after a graceful shutdown (quit or Ctrl+C, the keyboard listener
\* not involved) no session is left running, every session that was
\* disconnected had published a retained offline status on its printer's
\* topic before, and clients is empty.
C24_GracefulShutdown ==
  (spc = "returned" /\ listenerT.pc \in {"off", "listening"})
  => /\ clients = NoClients
     /\ \A i \in 1..Len(sessions) :
          /\ ~Live(i)
          /\ sessions[i].conn = "disconnected"
               => sessions[i].retained =
                    [topic |-> topic(sessions[i].name), status |-> "offline"]

\* C29: between commands every live session is the one clients holds under
\* its printer name, and every name in clients refers to a live session of
\* that name.
C29_SessionsTracked ==
  spc = "prompt"
  => /\ \A i \in 1..Len(sessions) : Live(i) => clients[sessions[i].name] = i
     /\ \A n \in keys(clients) : Live(clients[n]) /\ sessions[clients[n]].name = n

\* C30: in scenario mode no thread finds a clients entry gone that the
\* other has removed, no printer is handled by both shutdown paths, and
\* when the process ends on a shutdown no printer is left in clients.
C30_OneShutdownPathPerPrinter ==
  mode = "scenario"
  => /\ spc # "KeyError"
     /\ listenerT.pc # "KeyError"
     /\ \A i \in 1..Len(sessions) : Cardinality(sessions[i].by) <= 1
     /\ spc \in {"returned", "killed"} => clients = NoClients

====
